---- MODULE Spec2Model ----
(***************************************************************************)
(* Meeting Manager: availability evaluation (utils/validation.py), member  *)
(* assignment (api/assignment.py) and the booking operations               *)
(* (api/public.py, api/booking.py) as a state machine.                     *)
(*                                                                         *)
(* A datetime is the number of minutes since 00:00 of day 0; day 0 is a    *)
(* Monday.  A date is a day number, a time of day is a minute 0..1439.     *)
(***************************************************************************)
EXTENDS Integers, Sequences, FiniteSets, TLC

VARIABLES
    bookings,        \* tabMM Meeting Booking: sequence, index = booking name
    deptAlgorithm,   \* MM Department.assignment_algorithm
    deptMembers,     \* MM Department.department_members (child rows, in order)
    rules,           \* MM User Availability Rule rows per user (query order)
    userSettings,    \* MM User Settings.working_hours_json per user
    calendarEvents,  \* MM Calendar Event Sync rows joined with their integration
    now,             \* now_datetime(), in minutes
    clock,           \* now_datetime() as stored in last_assigned_datetime: a strictly increasing reading
    tokenCtr,        \* number of tokens handed out by secrets.token_urlsafe
    lastOp,          \* outcome of the last request
    lastEval,        \* arguments and result of the last check_member_availability call
    rrLog,           \* members chosen by the auto-assignments made so far
    reqs,            \* in-flight create_customer_booking requests (interleaved execution)
    budget           \* how many tracking updates and token draws the run may make

dbVars == <<bookings, deptAlgorithm, deptMembers, rules, userSettings, calendarEvents>>
vars == <<bookings, deptAlgorithm, deptMembers, rules, userSettings, calendarEvents,
          now, clock, tokenCtr, lastOp, lastEval, rrLog, reqs, budget>>

----------------------------------------------------------------------------
(* Dates and times *)

MinutesPerDay == 1440
DateOf(dt) == dt \div MinutesPerDay           \* datetime.date()
TimeOf(dt) == dt % MinutesPerDay              \* datetime.time()
Combine(d, t) == d * MinutesPerDay + t        \* datetime.combine(date, time)
Weekday(d) == d % 7                           \* date.weekday(), 0 = Monday

Members == {"m1", "m2", "m3"}
None == -1                                    \* Python None / SQL NULL in a numeric field
Epoch1970 == 0                                \* datetime(1970, 1, 1)

Msg(t, a, b) == [text |-> t, a |-> a, b |-> b]
NoReason == Msg("None", 0, 0)

IdSeq(n) == [i \in 1..n |-> i]
MapSeq(s, F(_)) == [k \in 1..Len(s) |-> F(s[k])]

ActiveStatuses == {"Confirmed", "Pending"}    \* booking_status IN ('Confirmed', 'Pending')
TerminalStatuses == {"Cancelled", "Completed"}

\* INNER JOIN tabMM Meeting Booking Assigned User ... WHERE au.user = member
AssignedTo(b, member) ==
    \E k \in 1..Len(b.assigned_users) : b.assigned_users[k].user = member

----------------------------------------------------------------------------
(* utils/validation.py *)

check_working_hours(member, scheduled_date, start_time, end_time) ==
    LET us == userSettings[member] IN
    IF ~us.has
    THEN [available |-> TRUE, reason |-> NoReason]
    ELSE LET day_config == us.days[Weekday(scheduled_date)] IN
         IF ~day_config.enabled
         THEN [available |-> FALSE,
               reason |-> Msg("Member is not available on this weekday", Weekday(scheduled_date), 0)]
         ELSE IF start_time < day_config.start \/ end_time > day_config.end
              THEN [available |-> FALSE,
                    reason |-> Msg("Time is outside working hours", day_config.start, day_config.end)]
              ELSE [available |-> TRUE, reason |-> NoReason]

\* The overrides of all the user's rules for the date, in query order.
RECURSIVE OverridesFor(_, _)
OverridesFor(rs, scheduled_date) ==
    IF rs = <<>> THEN <<>>
    ELSE SelectSeq(Head(rs).date_overrides, LAMBDA o : o.date = scheduled_date)
         \o OverridesFor(Tail(rs), scheduled_date)

RECURSIVE ScanOverrides(_, _, _)
ScanOverrides(ovs, start_time, end_time) ==
    IF ovs = <<>> THEN [available |-> TRUE, reason |-> NoReason]
    ELSE LET o == Head(ovs) IN
         IF ~o.available
         THEN [available |-> FALSE, reason |-> Msg("Member is not available on this date", o.date, 0)]
         ELSE IF o.custom_hours_start # None /\ o.custom_hours_end # None
                 /\ (start_time < o.custom_hours_start \/ end_time > o.custom_hours_end)
              THEN [available |-> FALSE,
                    reason |-> Msg("Time is outside custom hours for this date",
                                   o.custom_hours_start, o.custom_hours_end)]
              ELSE ScanOverrides(Tail(ovs), start_time, end_time)

check_date_overrides(member, scheduled_date, start_time, end_time) ==
    ScanOverrides(OverridesFor(rules[member], scheduled_date), start_time, end_time)

\* a variant that takes bookings of every status
BookingConflictRow_any_status(bks, i, member, sdt, edt, exclude_booking) ==
    /\ AssignedTo(bks[i], member)
    /\ bks[i].start_datetime < edt
    /\ bks[i].end_datetime > sdt
    /\ (exclude_booking # None => i # exclude_booking)

BookingConflictRow(bks, i, member, sdt, edt, exclude_booking) ==
    /\ AssignedTo(bks[i], member)
    /\ bks[i].booking_status \in ActiveStatuses
    /\ bks[i].start_datetime < edt
    /\ bks[i].end_datetime > sdt
    /\ (exclude_booking # None => i # exclude_booking)

check_booking_conflicts(bks, member, scheduled_date, start_time, end_time, exclude_booking) ==
    LET scheduled_start_datetime == Combine(scheduled_date, start_time)
        scheduled_end_datetime == Combine(scheduled_date, end_time)
        existing == SelectSeq(IdSeq(Len(bks)),
                        LAMBDA i : BookingConflictRow(bks, i, member, scheduled_start_datetime,
                                                      scheduled_end_datetime, exclude_booking))
    IN  MapSeq(existing, LAMBDA i :
            [booking_id |-> i,
             message |-> Msg("Conflicts with existing booking", i, TimeOf(bks[i].start_datetime))])

CalendarConflictRow(ev, member, start_datetime, end_datetime) ==
    /\ ev.user = member
    /\ ev.is_blocking_availability
    /\ ev.event_type # "All-Day Event"
    /\ ev.sync_status = "Synced"
    /\ ev.start_datetime < end_datetime
    /\ ev.end_datetime > start_datetime

check_calendar_event_conflicts(member, start_datetime, end_datetime) ==
    LET evs == SelectSeq(calendarEvents,
                   LAMBDA ev : CalendarConflictRow(ev, member, start_datetime, end_datetime))
    IN  MapSeq(evs, LAMBDA ev :
            [event_title |-> ev.event_title,
             message |-> Msg("Conflicts with calendar event", TimeOf(ev.start_datetime),
                             TimeOf(ev.end_datetime))])

\* frappe.get_all(..., order_by="is_default desc", limit=1)
FirstRule(rs) ==
    IF rs = <<>> THEN <<>>
    ELSE IF \E k \in 1..Len(rs) : rs[k].is_default
         THEN <<rs[CHOOSE k \in 1..Len(rs) :
                     rs[k].is_default /\ \A j \in 1..(k-1) : ~rs[j].is_default]>>
         ELSE <<rs[1]>>

BufferNearbyRow(bks, i, member, start_datetime, buffer_start, buffer_end, exclude_booking) ==
    /\ AssignedTo(bks[i], member)
    /\ DateOf(bks[i].start_datetime) = DateOf(start_datetime)
    /\ bks[i].booking_status \in ActiveStatuses
    /\ \/ (bks[i].start_datetime >= buffer_start /\ bks[i].start_datetime < buffer_end)
       \/ (bks[i].end_datetime > buffer_start /\ bks[i].end_datetime <= buffer_end)
    /\ (exclude_booking # None => i # exclude_booking)

BufferKind(b, start_datetime, end_datetime, buffer_start, buffer_end) ==
    IF ~(b.end_datetime <= buffer_start \/ b.start_datetime >= buffer_end)
    THEN IF b.end_datetime > buffer_start /\ b.end_datetime <= start_datetime
         THEN "before"
         ELSE IF b.start_datetime < buffer_end /\ b.start_datetime >= end_datetime
              THEN "after"
              ELSE "none"
    ELSE "none"

check_buffer_time_conflicts(bks, member, start_datetime, end_datetime, exclude_booking) ==
    LET availability_rules == FirstRule(rules[member]) IN
    IF availability_rules = <<>> THEN <<>>
    ELSE
    LET rule == availability_rules[1]
        buffer_before == rule.buffer_time_before
        buffer_after == rule.buffer_time_after
    IN  IF buffer_before = 0 /\ buffer_after = 0 THEN <<>>
        ELSE
        LET buffer_start == start_datetime - buffer_before
            buffer_end == end_datetime + buffer_after
            nearby == SelectSeq(IdSeq(Len(bks)),
                          LAMBDA i : BufferNearbyRow(bks, i, member, start_datetime,
                                                     buffer_start, buffer_end, exclude_booking))
            hits == SelectSeq(nearby,
                          LAMBDA i : BufferKind(bks[i], start_datetime, end_datetime,
                                                buffer_start, buffer_end) # "none")
        IN  MapSeq(hits, LAMBDA i :
                [message |->
                    IF BufferKind(bks[i], start_datetime, end_datetime, buffer_start, buffer_end) = "before"
                    THEN Msg("Violates buffer before meeting", buffer_before, i)
                    ELSE Msg("Violates buffer after meeting", buffer_after, i)])

\* SELECT COUNT(DISTINCT mb.name) ... DATE(mb.start_datetime) BETWEEN first AND last
CountBookings(bks, member, first, last) ==
    Cardinality({i \in 1..Len(bks) :
        /\ AssignedTo(bks[i], member)
        /\ DateOf(bks[i].start_datetime) >= first
        /\ DateOf(bks[i].start_datetime) <= last
        /\ bks[i].booking_status \in ActiveStatuses})

check_availability_rules(bks, member, scheduled_date) ==
    LET availability_rules == FirstRule(rules[member]) IN
    IF availability_rules = <<>> THEN [available |-> TRUE, reason |-> NoReason]
    ELSE
    LET rule == availability_rules[1]
        day_bookings == CountBookings(bks, member, scheduled_date, scheduled_date)
        week_start == scheduled_date - Weekday(scheduled_date)
        week_end == week_start + 6
        week_bookings == CountBookings(bks, member, week_start, week_end)
    IN  IF rule.max_bookings_per_day # 0 /\ day_bookings >= rule.max_bookings_per_day
        THEN [available |-> FALSE,
              reason |-> Msg("Member has reached maximum bookings per day", rule.max_bookings_per_day, 0)]
        ELSE IF rule.max_bookings_per_week # 0 /\ week_bookings >= rule.max_bookings_per_week
             THEN [available |-> FALSE,
                   reason |-> Msg("Member has reached maximum bookings per week",
                                  rule.max_bookings_per_week, 0)]
             ELSE [available |-> TRUE, reason |-> NoReason]

Conflict(type, message, ref) == [type |-> type, message |-> message, ref |-> ref]

\* a variant that returns at the first check that fails
check_member_availability_first_failure(bks, member, scheduled_date, scheduled_start_time, duration_minutes, exclude_booking) ==
    LET start_datetime == Combine(scheduled_date, scheduled_start_time)
        end_datetime == start_datetime + duration_minutes
        scheduled_end_time == TimeOf(end_datetime)
        working_hours_check == check_working_hours(member, scheduled_date, scheduled_start_time, scheduled_end_time)
        date_override_check == check_date_overrides(member, scheduled_date, scheduled_start_time, scheduled_end_time)
        booking_conflicts == check_booking_conflicts(bks, member, scheduled_date, scheduled_start_time,
                                                     scheduled_end_time, exclude_booking)
        calendar_conflicts == check_calendar_event_conflicts(member, start_datetime, end_datetime)
        buffer_conflicts == check_buffer_time_conflicts(bks, member, start_datetime, end_datetime, exclude_booking)
        availability_rule_check == check_availability_rules(bks, member, scheduled_date)
        conflicts ==
            IF ~working_hours_check.available
            THEN <<Conflict("working_hours", working_hours_check.reason, 0)>>
            ELSE IF ~date_override_check.available
            THEN <<Conflict("date_override", date_override_check.reason, 0)>>
            ELSE IF booking_conflicts # <<>>
            THEN MapSeq(booking_conflicts, LAMBDA c : Conflict("booking_conflict", c.message, c.booking_id))
            ELSE IF calendar_conflicts # <<>>
            THEN MapSeq(calendar_conflicts, LAMBDA c : Conflict("calendar_event", c.message, c.event_title))
            ELSE IF buffer_conflicts # <<>>
            THEN MapSeq(buffer_conflicts, LAMBDA c : Conflict("buffer_time", c.message, 0))
            ELSE IF ~availability_rule_check.available
            THEN <<Conflict("availability_rule", availability_rule_check.reason, 0)>>
            ELSE <<>>
    IN  [available |-> Len(conflicts) = 0,
         conflicts |-> conflicts,
         reason |-> IF conflicts # <<>> THEN conflicts[1].message ELSE NoReason]

check_member_availability(bks, member, scheduled_date, scheduled_start_time, duration_minutes, exclude_booking) ==
    LET start_datetime == Combine(scheduled_date, scheduled_start_time)
        end_datetime == start_datetime + duration_minutes
        scheduled_end_time == TimeOf(end_datetime)
        working_hours_check == check_working_hours(member, scheduled_date, scheduled_start_time, scheduled_end_time)
        date_override_check == check_date_overrides(member, scheduled_date, scheduled_start_time, scheduled_end_time)
        booking_conflicts == check_booking_conflicts(bks, member, scheduled_date, scheduled_start_time,
                                                     scheduled_end_time, exclude_booking)
        calendar_conflicts == check_calendar_event_conflicts(member, start_datetime, end_datetime)
        buffer_conflicts == check_buffer_time_conflicts(bks, member, start_datetime, end_datetime, exclude_booking)
        availability_rule_check == check_availability_rules(bks, member, scheduled_date)
        conflicts ==
            (IF ~working_hours_check.available
             THEN <<Conflict("working_hours", working_hours_check.reason, 0)>> ELSE <<>>)
            \o (IF ~date_override_check.available
                THEN <<Conflict("date_override", date_override_check.reason, 0)>> ELSE <<>>)
            \o MapSeq(booking_conflicts, LAMBDA c : Conflict("booking_conflict", c.message, c.booking_id))
            \o MapSeq(calendar_conflicts, LAMBDA c : Conflict("calendar_event", c.message, c.event_title))
            \o MapSeq(buffer_conflicts, LAMBDA c : Conflict("buffer_time", c.message, 0))
            \o (IF ~availability_rule_check.available
                THEN <<Conflict("availability_rule", availability_rule_check.reason, 0)>> ELSE <<>>)
    IN  [available |-> Len(conflicts) = 0,
         conflicts |-> conflicts,
         reason |-> IF conflicts # <<>> THEN conflicts[1].message ELSE NoReason]

----------------------------------------------------------------------------
(* api/assignment.py *)

SortKey(row) ==
    IF row.last_assigned_datetime = None THEN Epoch1970 ELSE row.last_assigned_datetime

\* a variant that sorts the other way round: the most recently assigned first
assign_round_robin_newest(available_members) ==
    available_members[CHOOSE i \in 1..Len(available_members) :
        /\ \A j \in 1..Len(available_members) :
               SortKey(available_members[i]) >= SortKey(available_members[j])
        /\ \A j \in 1..(i-1) :
               SortKey(available_members[j]) < SortKey(available_members[i])]

\* sorted(...)[0]: the sort is stable, so the first row with the least key
assign_round_robin(available_members) ==
    available_members[CHOOSE i \in 1..Len(available_members) :
        /\ \A j \in 1..Len(available_members) :
               SortKey(available_members[i]) <= SortKey(available_members[j])
        /\ \A j \in 1..(i-1) :
               SortKey(available_members[j]) > SortKey(available_members[i])]

\* frappe.db.count with start_datetime between [scheduled_date, week_end] and
\* booking_status in Confirmed/Pending, over the bookings the member is assigned to
LeastBusyCount(bks, member, scheduled_date) ==
    Cardinality({i \in 1..Len(bks) :
        /\ AssignedTo(bks[i], member)
        /\ DateOf(bks[i].start_datetime) >= scheduled_date
        /\ DateOf(bks[i].start_datetime) <= scheduled_date + 7
        /\ bks[i].booking_status \in ActiveStatuses})

LeastBusyLess(bks, a, b, scheduled_date) ==
    LET ca == LeastBusyCount(bks, a.member, scheduled_date)
        cb == LeastBusyCount(bks, b.member, scheduled_date)
    IN  ca < cb \/ (ca = cb /\ SortKey(a) < SortKey(b))

assign_least_busy(bks, available_members, scheduled_date) ==
    available_members[CHOOSE i \in 1..Len(available_members) :
        /\ \A j \in 1..Len(available_members) :
               ~LeastBusyLess(bks, available_members[j], available_members[i], scheduled_date)
        /\ \A j \in 1..(i-1) :
               LeastBusyLess(bks, available_members[i], available_members[j], scheduled_date)]

\* the row of a member in the department's member table
RowOf(rows, member) == rows[CHOOSE k \in 1..Len(rows) : rows[k].member = member]

\* a variant that stamps the time on every row of the department
update_member_assignment_tracking_all(rows, member, t) ==
    IF \E k \in 1..Len(rows) : rows[k].member = member
    THEN [k \in 1..Len(rows) |->
             IF rows[k].member = member
             THEN [rows[k] EXCEPT !.last_assigned_datetime = t,
                                  !.total_assignments = rows[k].total_assignments + 1]
             ELSE [rows[k] EXCEPT !.last_assigned_datetime = t]]
    ELSE rows

update_member_assignment_tracking(rows, member, t) ==
    IF \E k \in 1..Len(rows) : rows[k].member = member
    THEN LET k == CHOOSE k \in 1..Len(rows) :
                     rows[k].member = member /\ \A j \in 1..(k-1) : rows[j].member # member
         IN  [rows EXCEPT ![k].last_assigned_datetime = t,
                          ![k].total_assignments = rows[k].total_assignments + 1]
    ELSE rows

ActiveMembers(rows) == SelectSeq(rows, LAMBDA m : m.is_active)

\* a variant that evaluates every row of the department, active or not
AvailableMembers_all_rows(bks, rows, scheduled_date, scheduled_start_time, duration_minutes) ==
    SelectSeq(rows, LAMBDA m :
        check_member_availability(bks, m.member, scheduled_date, scheduled_start_time,
                                  duration_minutes, None).available)

AvailableMembers(bks, rows, scheduled_date, scheduled_start_time, duration_minutes) ==
    SelectSeq(ActiveMembers(rows), LAMBDA m :
        check_member_availability(bks, m.member, scheduled_date, scheduled_start_time,
                                  duration_minutes, None).available)

Failure(error) == [ok |-> FALSE, error |-> error, assigned_to |-> "", assignment_method |-> ""]

\* a variant that rejects an algorithm it does not know
assign_to_member_strict(bks, rows, algorithm, scheduled_date, scheduled_start_time, duration_minutes) ==
    LET active_members == ActiveMembers(rows)
        available_members == AvailableMembers(bks, rows, scheduled_date, scheduled_start_time,
                                              duration_minutes)
    IN  IF algorithm \notin {"Round Robin", "Least Busy"}
        THEN Failure("Department does not have an assignment algorithm configured")
        ELSE IF active_members = <<>> THEN Failure("No active members in department")
        ELSE IF available_members = <<>>
             THEN Failure("No members available in department at the requested time")
        ELSE IF algorithm = "Round Robin"
             THEN [ok |-> TRUE, error |-> "", assignment_method |-> "Round Robin",
                   assigned_to |-> assign_round_robin(available_members).member]
        ELSE [ok |-> TRUE, error |-> "", assignment_method |-> "Least Busy",
              assigned_to |-> assign_least_busy(bks, available_members, scheduled_date).member]

\* a variant that falls back to the first active member when nobody is
\* available
assign_to_member_fallback(bks, rows, algorithm, scheduled_date, scheduled_start_time, duration_minutes) ==
    LET active_members == ActiveMembers(rows)
        available_members == AvailableMembers(bks, rows, scheduled_date, scheduled_start_time,
                                              duration_minutes)
        candidates == IF available_members = <<>> THEN active_members ELSE available_members
    IN  IF algorithm = "" THEN Failure("Department does not have an assignment algorithm configured")
        ELSE IF active_members = <<>> THEN Failure("No active members in department")
        ELSE IF algorithm = "Least Busy"
             THEN [ok |-> TRUE, error |-> "", assignment_method |-> "Least Busy",
                   assigned_to |-> assign_least_busy(bks, candidates, scheduled_date).member]
        ELSE [ok |-> TRUE, error |-> "",
              assignment_method |-> IF algorithm = "Round Robin" THEN "Round Robin"
                                    ELSE "Round Robin (default)",
              assigned_to |-> assign_round_robin(candidates).member]

\* The value assign_to_member returns or the error it throws; its side effect
\* is update_member_assignment_tracking, applied by the caller's action.
assign_to_member(bks, rows, algorithm, scheduled_date, scheduled_start_time, duration_minutes) ==
    LET active_members == ActiveMembers(rows)
        available_members == AvailableMembers(bks, rows, scheduled_date, scheduled_start_time,
                                              duration_minutes)
    IN  IF algorithm = "" THEN Failure("Department does not have an assignment algorithm configured")
        ELSE IF active_members = <<>> THEN Failure("No active members in department")
        ELSE IF available_members = <<>> THEN Failure("No members available in department at the requested time")
        ELSE IF algorithm = "Round Robin"
             THEN [ok |-> TRUE, error |-> "", assignment_method |-> "Round Robin",
                   assigned_to |-> assign_round_robin(available_members).member]
        ELSE IF algorithm = "Least Busy"
             THEN [ok |-> TRUE, error |-> "", assignment_method |-> "Least Busy",
                   assigned_to |-> assign_least_busy(bks, available_members, scheduled_date).member]
        ELSE [ok |-> TRUE, error |-> "", assignment_method |-> "Round Robin (default)",
              assigned_to |-> assign_round_robin(available_members).member]

----------------------------------------------------------------------------
(* Configuration and inputs *)

MaxClock == 2            \* assignment-tracking updates
MaxTokenDraws == 2       \* token pairs drawn: bookings created plus public reschedules
MaxRotation == 3         \* auto-assignments in the rotation runs

Today == 7               \* getdate(): a Monday
NowTime == 540           \* 09:00
Dates == {Today - 1, Today}
StartTimes == {600, 630, 1380}

MeetingTypes ==
    {[name |-> "consult", duration |-> 60, requires_approval |-> FALSE],
     [name |-> "quick", duration |-> 30, requires_approval |-> TRUE]}

Algorithms == {"Round Robin", "Least Busy", "", "Weighted"}

Rule(is_default, before, after, per_day, per_week, overrides) ==
    [is_default |-> is_default, is_active |-> TRUE,
     buffer_time_before |-> before, buffer_time_after |-> after,
     max_bookings_per_day |-> per_day, max_bookings_per_week |-> per_week,
     min_notice_hours |-> 1, max_days_advance |-> 30,
     date_overrides |-> overrides]

NoSettings == [has |-> FALSE, days |-> <<>>]

\* the default working_hours_json of MM User Settings
DefaultWorkingHours ==
    [has |-> TRUE,
     days |-> [d \in 0..6 |->
                 IF d <= 4 THEN [enabled |-> TRUE, start |-> 540, end |-> 1020]
                           ELSE [enabled |-> FALSE, start |-> 0, end |-> 1439]]]

MemberRow(m, active) ==
    [member |-> m, is_active |-> active, last_assigned_datetime |-> None, total_assignments |-> 0]

NoLog == [picks |-> <<>>, fair |-> TRUE, last |-> "", avail |-> {}]

NoOp == [op |-> "none", ok |-> TRUE, error |-> "", booking |-> 0, member |-> "", method |-> ""]
NoEval == [calls |-> 0, member |-> "", scheduled_date |-> 0, scheduled_start_time |-> 0,
           duration_minutes |-> 0, exclude_booking |-> None,
           result |-> [available |-> TRUE, conflicts |-> <<>>, reason |-> NoReason]]

\* Scenario 1: nobody has rules or working hours.  Scenario 2: m1 has a default
\* rule (30 minutes after each meeting, two bookings a day), m2 works 09:00-17:00.
\* Scenario 3: as scenario 1, with m2 deactivated.
Scenarios ==
    {[rules |-> [m \in Members |-> <<>>],
      userSettings |-> [m \in Members |-> NoSettings],
      m2_active |-> TRUE],
     [rules |-> [m \in Members |-> IF m = "m1" THEN <<Rule(TRUE, 0, 30, 2, 0, <<>>)>> ELSE <<>>],
      userSettings |-> [m \in Members |-> IF m = "m2" THEN DefaultWorkingHours ELSE NoSettings],
      m2_active |-> TRUE],
     [rules |-> [m \in Members |-> <<>>],
      userSettings |-> [m \in Members |-> NoSettings],
      m2_active |-> FALSE]}

Init ==
    /\ bookings = <<>>
    /\ deptAlgorithm \in Algorithms
    /\ \E sc \in Scenarios :
          /\ rules = sc.rules
          /\ userSettings = sc.userSettings
          /\ deptMembers = <<MemberRow("m1", TRUE), MemberRow("m2", sc.m2_active)>>
    /\ calendarEvents = <<>>
    /\ now = Combine(Today, NowTime)
    /\ clock = 0
    /\ tokenCtr = 0
    /\ lastOp = NoOp
    /\ lastEval = NoEval
    /\ rrLog = NoLog
    /\ reqs = <<>>
    /\ budget = [clock |-> MaxClock, tokens |-> MaxTokenDraws]

----------------------------------------------------------------------------
(* doctype/mm_meeting_booking: validate() as run by insert() and save() *)

\* frappe.get_value("MM User Availability Rule", {user, is_active: 1, is_default: 1})
ActiveDefaultRule(user) ==
    SelectSeq(rules[user], LAMBDA r : r.is_active /\ r.is_default)

AdvanceWindowError(user, start_dt) ==
    IF user \notin Members \/ ActiveDefaultRule(user) = <<>> THEN ""
    ELSE LET availability_rule == ActiveDefaultRule(user)[1]
             days_in_advance == (start_dt - now) \div MinutesPerDay
         IN  IF days_in_advance > availability_rule.max_days_advance
             THEN "Booking is too far in advance"
             ELSE IF (start_dt - now) < availability_rule.min_notice_hours * 60
                  THEN "Booking does not meet minimum notice requirement"
                  ELSE ""

RECURSIVE AdvanceWindowErrors(_, _)
AdvanceWindowErrors(assigned_users, start_dt) ==
    IF assigned_users = <<>> THEN ""
    ELSE IF AdvanceWindowError(Head(assigned_users).user, start_dt) # ""
         THEN AdvanceWindowError(Head(assigned_users).user, start_dt)
         ELSE AdvanceWindowErrors(Tail(assigned_users), start_dt)

\* the error validate_timing throws, "" when it passes
validate_timing(b, is_new) ==
    IF b.end_datetime <= b.start_datetime THEN "End DateTime must be after Start DateTime."
    ELSE IF is_new /\ b.start_datetime < now THEN "Cannot create a booking in the past"
    ELSE IF is_new THEN AdvanceWindowErrors(b.assigned_users, b.start_datetime)
    ELSE ""

AssignedUser(user) == [user |-> user, is_primary_host |-> TRUE]

CancelToken(k) == 2 * k
RescheduleToken(k) == 2 * k + 1

NewBooking(mt, start_datetime, end_datetime, user, k) ==
    [meeting_type |-> mt.name,
     start_datetime |-> start_datetime,
     end_datetime |-> end_datetime,
     booking_status |-> IF mt.requires_approval THEN "Pending" ELSE "Confirmed",
     assigned_users |-> <<AssignedUser(user)>>,
     cancel_token |-> CancelToken(k),
     reschedule_token |-> RescheduleToken(k),
     cancellation_reason |-> "",
     cancelled_at |-> None]

\* frappe.get_value("MM Meeting Booking", {field: token}): name of the first match, 0 if none
FindByToken(bks, field, token) ==
    IF \E i \in 1..Len(bks) : bks[i][field] = token
    THEN CHOOSE i \in 1..Len(bks) : bks[i][field] = token /\ \A j \in 1..(i-1) : bks[j][field] # token
    ELSE 0

\* the primary host, else the first assigned user, else ""
PrimaryUser(b) ==
    IF \E k \in 1..Len(b.assigned_users) : b.assigned_users[k].is_primary_host
    THEN b.assigned_users[CHOOSE k \in 1..Len(b.assigned_users) :
             /\ b.assigned_users[k].is_primary_host
             /\ \A j \in 1..(k-1) : ~b.assigned_users[j].is_primary_host].user
    ELSE IF Len(b.assigned_users) > 0 THEN b.assigned_users[1].user ELSE ""

Duration(b) == b.end_datetime - b.start_datetime     \* calculate_duration

----------------------------------------------------------------------------
(* Bookkeeping of the auto-assignments, for the rotation properties *)

LastN(s, n) == IF Len(s) <= n THEN s ELSE SubSeq(s, Len(s) - n + 1, Len(s))

\* an auto-assignment that picked member m while `allAvailable` tells whether
\* every active member was available for the requested window
NamesOf(rows) == {rows[k].member : k \in 1..Len(rows)}

\* an auto-assignment picked member m among the rows `available`; the run stays
\* `fair` while every auto-assignment found all active members available
LogAssignment(log, m, available) ==
    IF log.fair /\ available = ActiveMembers(deptMembers) /\ deptAlgorithm \notin {"", "Least Busy"}
    THEN [picks |-> LastN(Append(log.picks, m), Len(ActiveMembers(deptMembers))), fair |-> TRUE,
          last |-> m, avail |-> NamesOf(available)]
    ELSE [picks |-> <<>>, fair |-> FALSE, last |-> m, avail |-> NamesOf(available)]

Outcome(op, ok, error, booking, member, method) ==
    [op |-> op, ok |-> ok, error |-> error, booking |-> booking, member |-> member, method |-> method]

----------------------------------------------------------------------------
(* api/public.py and api/booking.py: one action per request.  A request that
   throws is rolled back: only lastOp records it. *)

Fail(op, error, booking) ==
    /\ lastOp' = Outcome(op, FALSE, error, booking, "", "")
    /\ UNCHANGED <<bookings, deptAlgorithm, deptMembers, rules, userSettings, calendarEvents,
                   now, clock, tokenCtr, lastEval, rrLog, reqs, budget>>

\* public.py:275-349: the error create_customer_booking throws before it
\* writes, "" if none
CreateError(mt, scheduled_date, scheduled_start_time) ==
    LET start_datetime == Combine(scheduled_date, scheduled_start_time)
        end_datetime == start_datetime + mt.duration
        assignment == assign_to_member(bookings, deptMembers, deptAlgorithm, scheduled_date,
                                       scheduled_start_time, mt.duration)
        booking == NewBooking(mt, start_datetime, end_datetime, assignment.assigned_to, tokenCtr + 1)
    IN  IF scheduled_date < DateOf(now) THEN "Cannot book dates in the past"
        ELSE IF ~assignment.ok THEN assignment.error
        ELSE validate_timing(booking, TRUE)

create_customer_booking ==
    \E mt \in MeetingTypes, scheduled_date \in Dates, scheduled_start_time \in StartTimes :
        /\ clock < budget.clock
        /\ tokenCtr < budget.tokens
        /\ LET start_datetime == Combine(scheduled_date, scheduled_start_time)
               end_datetime == start_datetime + mt.duration
               assignment == assign_to_member(bookings, deptMembers, deptAlgorithm, scheduled_date,
                                              scheduled_start_time, mt.duration)
               booking == NewBooking(mt, start_datetime, end_datetime, assignment.assigned_to, tokenCtr + 1)
               error == CreateError(mt, scheduled_date, scheduled_start_time)
           IN  IF error # ""
               THEN Fail("create_customer_booking", error, 0)
               ELSE /\ bookings' = Append(bookings, booking)
                    /\ deptMembers' = update_member_assignment_tracking(deptMembers, assignment.assigned_to, clock + 1)
                    /\ clock' = clock + 1
                    /\ tokenCtr' = tokenCtr + 1
                    /\ rrLog' = LogAssignment(rrLog, assignment.assigned_to,
                                   AvailableMembers(bookings, deptMembers, scheduled_date,
                                                    scheduled_start_time, mt.duration))
                    /\ lastOp' = Outcome("create_customer_booking", TRUE, "", Len(bookings) + 1,
                                         assignment.assigned_to, assignment.assignment_method)
                    /\ UNCHANGED <<deptAlgorithm, rules, userSettings, calendarEvents, now, lastEval, reqs, budget>>

AlreadyMessage(status) ==
    IF status = "Cancelled" THEN "This booking has already been cancelled"
    ELSE "This booking has already been completed"

\* public.py:430-445: the error cancel_booking throws before it writes, "" if none
CancelError(token) ==
    LET name == FindByToken(bookings, "cancel_token", token) IN
    IF name = 0 THEN "Invalid or expired cancellation link"
    ELSE IF bookings[name].booking_status \in TerminalStatuses
         THEN AlreadyMessage(bookings[name].booking_status)
         ELSE ""

\* a variant without the test of the new date
RescheduleError_any_date(token, new_date) ==
    LET name == FindByToken(bookings, "reschedule_token", token) IN
    IF name = 0 THEN "Invalid or expired reschedule link"
    ELSE IF bookings[name].booking_status \in TerminalStatuses
         THEN AlreadyMessage(bookings[name].booking_status)
    ELSE ""

\* public.py:546-587: the error reschedule_booking throws before it evaluates
\* a member, "" if none
RescheduleError(token, new_date) ==
    LET name == FindByToken(bookings, "reschedule_token", token) IN
    IF name = 0 THEN "Invalid or expired reschedule link"
    ELSE IF bookings[name].booking_status \in TerminalStatuses
         THEN AlreadyMessage(bookings[name].booking_status)
    ELSE IF new_date < DateOf(now) THEN "Cannot reschedule to a date in the past"
    ELSE ""

\* a variant that rejects only a booking that is already Cancelled
cancel_booking_once ==
    \E token \in 0..RescheduleToken(tokenCtr) :
        LET name == FindByToken(bookings, "cancel_token", token) IN
        IF name = 0 THEN Fail("cancel_booking", "Invalid or expired cancellation link", 0)
        ELSE IF bookings[name].booking_status = "Cancelled"
        THEN Fail("cancel_booking", AlreadyMessage(bookings[name].booking_status), name)
        ELSE /\ bookings' = [bookings EXCEPT ![name].booking_status = "Cancelled",
                                             ![name].cancellation_reason = "Customer Cancelled",
                                             ![name].cancelled_at = now]
             /\ lastOp' = Outcome("cancel_booking", TRUE, "", name, "", "")
             /\ UNCHANGED <<deptAlgorithm, deptMembers, rules, userSettings, calendarEvents,
                            now, clock, tokenCtr, lastEval, rrLog, reqs, budget>>

cancel_booking ==
    \E token \in 0..RescheduleToken(tokenCtr) :
        LET name == FindByToken(bookings, "cancel_token", token) IN
        IF CancelError(token) # "" THEN Fail("cancel_booking", CancelError(token), name)
        ELSE /\ bookings' = [bookings EXCEPT ![name].booking_status = "Cancelled",
                                             ![name].cancellation_reason = "Customer Cancelled",
                                             ![name].cancelled_at = now]
             /\ lastOp' = Outcome("cancel_booking", TRUE, "", name, "", "")
             /\ UNCHANGED <<deptAlgorithm, deptMembers, rules, userSettings, calendarEvents,
                            now, clock, tokenCtr, lastEval, rrLog, reqs, budget>>

\* a variant that moves the booking without looking at the host's availability
reschedule_booking_keep_host ==
    \E token \in 0..RescheduleToken(tokenCtr), new_date \in Dates, new_time \in StartTimes :
        /\ clock < budget.clock
        /\ tokenCtr < budget.tokens
        /\ LET name == FindByToken(bookings, "reschedule_token", token) IN
           IF name = 0 THEN Fail("reschedule_booking", "Invalid or expired reschedule link", 0)
           ELSE IF bookings[name].booking_status \in TerminalStatuses
           THEN Fail("reschedule_booking", AlreadyMessage(bookings[name].booking_status), name)
           ELSE IF new_date < DateOf(now)
           THEN Fail("reschedule_booking", "Cannot reschedule to a date in the past", name)
           ELSE
           LET booking == bookings[name]
               current_duration == Duration(booking)
               new_start_datetime == Combine(new_date, new_time)
               new_end_datetime == new_start_datetime + current_duration
               current_member == PrimaryUser(booking)
               current_member_available ==
                   check_member_availability(bookings, current_member, new_date, new_time,
                                             current_duration, name)
               member_changed == FALSE
               assignment == assign_to_member(bookings, deptMembers, deptAlgorithm, new_date,
                                              new_time, current_duration)
           IN  IF member_changed /\ ~assignment.ok
               THEN Fail("reschedule_booking", "No members are available at the requested time", name)
               ELSE /\ bookings' = [bookings EXCEPT
                           ![name].start_datetime = new_start_datetime,
                           ![name].end_datetime = new_end_datetime,
                           ![name].booking_status = "Rescheduled",
                           ![name].assigned_users =
                               IF member_changed THEN <<AssignedUser(assignment.assigned_to)>>
                               ELSE booking.assigned_users,
                           ![name].cancel_token = CancelToken(tokenCtr + 1),
                           ![name].reschedule_token = RescheduleToken(tokenCtr + 1)]
                    /\ tokenCtr' = tokenCtr + 1
                    /\ IF member_changed
                       THEN /\ deptMembers' = update_member_assignment_tracking(
                                                  deptMembers, assignment.assigned_to, clock + 1)
                            /\ clock' = clock + 1
                            /\ rrLog' = LogAssignment(rrLog, assignment.assigned_to,
                                           AvailableMembers(bookings, deptMembers, new_date, new_time,
                                                            current_duration))
                       ELSE UNCHANGED <<deptMembers, clock, rrLog>>
                    /\ lastOp' = Outcome("reschedule_booking", TRUE, "", name,
                                         IF member_changed THEN assignment.assigned_to ELSE current_member,
                                         IF member_changed THEN assignment.assignment_method ELSE "")
                    /\ UNCHANGED <<deptAlgorithm, rules, userSettings, calendarEvents, now, lastEval, reqs, budget>>

reschedule_booking ==
    \E token \in 0..RescheduleToken(tokenCtr), new_date \in Dates, new_time \in StartTimes :
        /\ clock < budget.clock
        /\ tokenCtr < budget.tokens
        /\ LET name == FindByToken(bookings, "reschedule_token", token) IN
           IF RescheduleError(token, new_date) # ""
           THEN Fail("reschedule_booking", RescheduleError(token, new_date), name)
           ELSE
           LET booking == bookings[name]
               current_duration == Duration(booking)
               new_start_datetime == Combine(new_date, new_time)
               new_end_datetime == new_start_datetime + current_duration
               current_member == PrimaryUser(booking)
               current_member_available ==
                   check_member_availability(bookings, current_member, new_date, new_time,
                                             current_duration, name)
               member_changed == current_member # "" /\ ~current_member_available.available
               assignment == assign_to_member(bookings, deptMembers, deptAlgorithm, new_date,
                                              new_time, current_duration)
           IN  IF member_changed /\ ~assignment.ok
               THEN Fail("reschedule_booking", "No members are available at the requested time", name)
               ELSE /\ bookings' = [bookings EXCEPT
                           ![name].start_datetime = new_start_datetime,
                           ![name].end_datetime = new_end_datetime,
                           ![name].booking_status = "Rescheduled",
                           ![name].assigned_users =
                               IF member_changed THEN <<AssignedUser(assignment.assigned_to)>>
                               ELSE booking.assigned_users,
                           ![name].cancel_token = CancelToken(tokenCtr + 1),
                           ![name].reschedule_token = RescheduleToken(tokenCtr + 1)]
                    /\ tokenCtr' = tokenCtr + 1
                    /\ IF member_changed
                       THEN /\ deptMembers' = update_member_assignment_tracking(
                                                  deptMembers, assignment.assigned_to, clock + 1)
                            /\ clock' = clock + 1
                            /\ rrLog' = LogAssignment(rrLog, assignment.assigned_to,
                                           AvailableMembers(bookings, deptMembers, new_date, new_time,
                                                            current_duration))
                       ELSE UNCHANGED <<deptMembers, clock, rrLog>>
                    /\ lastOp' = Outcome("reschedule_booking", TRUE, "", name,
                                         IF member_changed THEN assignment.assigned_to ELSE current_member,
                                         IF member_changed THEN assignment.assignment_method ELSE "")
                    /\ UNCHANGED <<deptAlgorithm, rules, userSettings, calendarEvents, now, lastEval, reqs, budget>>

Users == Members \cup {"outsider"}

IsActiveMember(rows, user) ==
    \E k \in 1..Len(rows) : rows[k].member = user /\ rows[k].is_active

\* a variant that hands the booking over without evaluating the new member
reassign_booking_unchecked ==
    \E booking_id \in 1..Len(bookings), new_assigned_to \in Users :
        /\ clock < budget.clock
        /\ LET booking == bookings[booking_id] IN
           IF booking.booking_status \in TerminalStatuses
           THEN Fail("reassign_booking", "Cannot reassign cancelled or completed bookings", booking_id)
           ELSE IF ~IsActiveMember(deptMembers, new_assigned_to)
           THEN Fail("reassign_booking", "The new member is not an active member of department", booking_id)
           ELSE
           LET availability == check_member_availability(bookings, new_assigned_to,
                                   DateOf(booking.start_datetime), TimeOf(booking.start_datetime),
                                   Duration(booking), booking_id)
               row == IF \E k \in 1..Len(booking.assigned_users) : booking.assigned_users[k].is_primary_host
                      THEN CHOOSE k \in 1..Len(booking.assigned_users) :
                               /\ booking.assigned_users[k].is_primary_host
                               /\ \A j \in 1..(k-1) : ~booking.assigned_users[j].is_primary_host
                      ELSE IF Len(booking.assigned_users) > 0 THEN 1 ELSE 0
           IN  IF FALSE
               THEN Fail("reassign_booking", "New member is not available at this time", booking_id)
               ELSE /\ bookings' = [bookings EXCEPT ![booking_id].assigned_users =
                                       IF row # 0 THEN [booking.assigned_users EXCEPT ![row].user = new_assigned_to]
                                       ELSE <<AssignedUser(new_assigned_to)>>]
                    /\ deptMembers' = update_member_assignment_tracking(deptMembers, new_assigned_to, clock + 1)
                    /\ clock' = clock + 1
                    /\ rrLog' = [NoLog EXCEPT !.fair = FALSE]
                    /\ lastOp' = Outcome("reassign_booking", TRUE, "", booking_id, new_assigned_to, "")
                    /\ UNCHANGED <<deptAlgorithm, rules, userSettings, calendarEvents, now, tokenCtr,
                                   lastEval, reqs, budget>>

reassign_booking ==
    \E booking_id \in 1..Len(bookings), new_assigned_to \in Users :
        /\ clock < budget.clock
        /\ LET booking == bookings[booking_id] IN
           IF booking.booking_status \in TerminalStatuses
           THEN Fail("reassign_booking", "Cannot reassign cancelled or completed bookings", booking_id)
           ELSE IF ~IsActiveMember(deptMembers, new_assigned_to)
           THEN Fail("reassign_booking", "The new member is not an active member of department", booking_id)
           ELSE
           LET availability == check_member_availability(bookings, new_assigned_to,
                                   DateOf(booking.start_datetime), TimeOf(booking.start_datetime),
                                   Duration(booking), booking_id)
               row == IF \E k \in 1..Len(booking.assigned_users) : booking.assigned_users[k].is_primary_host
                      THEN CHOOSE k \in 1..Len(booking.assigned_users) :
                               /\ booking.assigned_users[k].is_primary_host
                               /\ \A j \in 1..(k-1) : ~booking.assigned_users[j].is_primary_host
                      ELSE IF Len(booking.assigned_users) > 0 THEN 1 ELSE 0
           IN  IF ~availability.available
               THEN Fail("reassign_booking", "New member is not available at this time", booking_id)
               ELSE /\ bookings' = [bookings EXCEPT ![booking_id].assigned_users =
                                       IF row # 0 THEN [booking.assigned_users EXCEPT ![row].user = new_assigned_to]
                                       ELSE <<AssignedUser(new_assigned_to)>>]
                    /\ deptMembers' = update_member_assignment_tracking(deptMembers, new_assigned_to, clock + 1)
                    /\ clock' = clock + 1
                    /\ rrLog' = [NoLog EXCEPT !.fair = FALSE]
                    /\ lastOp' = Outcome("reassign_booking", TRUE, "", booking_id, new_assigned_to, "")
                    /\ UNCHANGED <<deptAlgorithm, rules, userSettings, calendarEvents, now, tokenCtr,
                                   lastEval, reqs, budget>>

reschedule_booking_internal ==
    \E booking_id \in 1..Len(bookings), new_date \in Dates, new_time \in StartTimes :
        LET booking == bookings[booking_id]
            new_start_datetime == Combine(new_date, new_time)
            new_end_datetime == new_start_datetime + Duration(booking)
            primary_user == PrimaryUser(booking)
            availability == check_member_availability(bookings, primary_user, new_date, new_time,
                                                      Duration(booking), booking_id)
        IN  IF booking.booking_status \in TerminalStatuses
            THEN Fail("reschedule_booking_internal", "Cannot reschedule cancelled or completed bookings", booking_id)
            ELSE IF new_date < DateOf(now)
            THEN Fail("reschedule_booking_internal", "Cannot reschedule to a date in the past", booking_id)
            ELSE IF primary_user # "" /\ ~availability.available
            THEN Fail("reschedule_booking_internal", "Member is not available at the new time", booking_id)
            ELSE /\ bookings' = [bookings EXCEPT ![booking_id].start_datetime = new_start_datetime,
                                                 ![booking_id].end_datetime = new_end_datetime]
                 /\ lastOp' = Outcome("reschedule_booking_internal", TRUE, "", booking_id, primary_user, "")
                 /\ UNCHANGED <<deptAlgorithm, deptMembers, rules, userSettings, calendarEvents,
                                now, clock, tokenCtr, lastEval, rrLog, reqs, budget>>

Next ==
    \/ create_customer_booking
    \/ cancel_booking
    \/ reschedule_booking
    \/ reassign_booking
    \/ reschedule_booking_internal

Spec == Init /\ [][Next]_vars

----------------------------------------------------------------------------
(* Rotation runs: the requests that auto-assign (and cancellation), in a
   department whose algorithm resolves to Round Robin. *)

AssignInit ==
    /\ bookings = <<>>
    /\ deptAlgorithm = "Round Robin"
    /\ \E sc \in Scenarios :
          /\ rules = sc.rules
          /\ userSettings = sc.userSettings
          /\ deptMembers = <<MemberRow("m1", TRUE), MemberRow("m2", sc.m2_active), MemberRow("m3", TRUE)>>
    /\ calendarEvents = <<>>
    /\ now = Combine(Today, NowTime)
    /\ clock = 0
    /\ tokenCtr = 0
    /\ lastOp = NoOp
    /\ lastEval = NoEval
    /\ rrLog = NoLog
    /\ reqs = <<>>
    /\ budget = [clock |-> MaxRotation, tokens |-> MaxRotation]

AssignNext ==
    \/ create_customer_booking
    \/ reschedule_booking

AssignSpec == AssignInit /\ [][AssignNext]_vars

----------------------------------------------------------------------------
(* Interleaved execution: two create_customer_booking requests, each in its
   own database transaction.  A request first runs assign_to_member against
   the committed data (public.py:291), then inserts its booking and commits
   (public.py:349). *)

Procs == {1, 2}

IdleReq ==
    [pc |-> "idle", mt |-> "", scheduled_date |-> 0, scheduled_start_time |-> 0, duration |-> 0,
     requires_approval |-> FALSE, assigned_to |-> "", rows |-> <<>>, error |-> "",
     seen |-> 0, available |-> 0]

ConcInit ==
    /\ bookings = <<>>
    /\ deptAlgorithm \in {"Round Robin", "Least Busy"}
    /\ \E sc \in Scenarios :
          /\ rules = sc.rules
          /\ userSettings = sc.userSettings
          /\ deptMembers = <<MemberRow("m1", TRUE), MemberRow("m2", sc.m2_active)>>
    /\ calendarEvents = <<>>
    /\ now = Combine(Today, NowTime)
    /\ clock = 0
    /\ tokenCtr = 0
    /\ lastOp = NoOp
    /\ lastEval = NoEval
    /\ rrLog = NoLog
    /\ reqs = [p \in Procs |-> IdleReq]
    /\ budget = [clock |-> MaxClock, tokens |-> MaxTokenDraws]

\* public.py:275-297 with assignment.py:39-90: validate the date, evaluate the
\* members, pick one and write the tracking fields into the loaded department
ConcEvaluate(p) ==
    /\ reqs[p].pc = "idle"
    /\ \E mt \in MeetingTypes, scheduled_date \in Dates, scheduled_start_time \in StartTimes :
          LET assignment == assign_to_member(bookings, deptMembers, deptAlgorithm, scheduled_date,
                                             scheduled_start_time, mt.duration)
              error == IF scheduled_date < DateOf(now) THEN "Cannot book dates in the past"
                       ELSE assignment.error
              req == [IdleReq EXCEPT !.mt = mt.name, !.scheduled_date = scheduled_date,
                                     !.scheduled_start_time = scheduled_start_time,
                                     !.duration = mt.duration,
                                     !.requires_approval = mt.requires_approval,
                                     !.seen = Len(bookings),
                                     !.available = Len(AvailableMembers(bookings, deptMembers, scheduled_date,
                                                                        scheduled_start_time, mt.duration))]
          IN  IF error # ""
              THEN /\ reqs' = [reqs EXCEPT ![p] = [req EXCEPT !.pc = "failed", !.error = error]]
                   /\ UNCHANGED clock
              ELSE /\ reqs' = [reqs EXCEPT ![p] =
                                  [req EXCEPT !.pc = "assigned",
                                              !.assigned_to = assignment.assigned_to,
                                              !.rows = update_member_assignment_tracking(
                                                           deptMembers, assignment.assigned_to, clock + 1)]]
                   /\ clock' = clock + 1
    /\ UNCHANGED <<bookings, deptAlgorithm, deptMembers, rules, userSettings, calendarEvents,
                   now, tokenCtr, lastOp, lastEval, rrLog, budget>>

\* public.py:299-349: build the booking, insert it (validate() runs) and commit
ConcPersist(p) ==
    /\ reqs[p].pc = "assigned"
    /\ LET r == reqs[p]
           start_datetime == Combine(r.scheduled_date, r.scheduled_start_time)
           booking == NewBooking([name |-> r.mt, duration |-> r.duration,
                                  requires_approval |-> r.requires_approval],
                                 start_datetime, start_datetime + r.duration, r.assigned_to, tokenCtr + 1)
           error == validate_timing(booking, TRUE)
       IN  IF error # ""
           THEN /\ reqs' = [reqs EXCEPT ![p].pc = "failed", ![p].error = error]
                /\ UNCHANGED <<bookings, deptMembers, tokenCtr>>
           ELSE /\ bookings' = Append(bookings, booking)
                /\ deptMembers' = r.rows
                /\ tokenCtr' = tokenCtr + 1
                /\ reqs' = [reqs EXCEPT ![p].pc = "done"]
    /\ UNCHANGED <<deptAlgorithm, rules, userSettings, calendarEvents, now, clock, lastOp, lastEval,
                   rrLog, budget>>

ConcNext == \E p \in Procs : ConcEvaluate(p) \/ ConcPersist(p)

ConcSpec == ConcInit /\ [][ConcNext]_vars

----------------------------------------------------------------------------
(* check_member_availability as a function of the stored data: the data of
   member m1 is drawn at the start, every step evaluates one request. *)

MaxEvalBookings == 2     \* existing bookings of the member
MaxEvalCalls == 2        \* calls of check_member_availability in a run

EvalMember == "m1"
EvalSlots ==
    <<[start_datetime |-> Combine(Today, 570), end_datetime |-> Combine(Today, 600)],
      [start_datetime |-> Combine(Today, 600), end_datetime |-> Combine(Today, 660)],
      [start_datetime |-> Combine(Today, 1410), end_datetime |-> Combine(Today + 1, 30)]>>
EvalStatuses == {"Confirmed", "Rescheduled", "Cancelled"}

EvalBooking(slot, status, k) ==
    [meeting_type |-> "consult",
     start_datetime |-> EvalSlots[slot].start_datetime,
     end_datetime |-> EvalSlots[slot].end_datetime,
     booking_status |-> status,
     assigned_users |-> <<AssignedUser(EvalMember)>>,
     cancel_token |-> CancelToken(k),
     reschedule_token |-> RescheduleToken(k),
     cancellation_reason |-> IF status = "Cancelled" THEN "Customer Cancelled" ELSE "",
     cancelled_at |-> IF status = "Cancelled" THEN Combine(Today, NowTime) ELSE None]

\* the bookings of an assignment slot -> status ("" = no booking), in slot order
EvalBookings(f) ==
    LET present == SelectSeq(IdSeq(Len(EvalSlots)), LAMBDA i : f[i] # "")
    IN  [k \in 1..Len(present) |-> EvalBooking(present[k], f[present[k]], k)]

EvalOverrideSets ==
    {<<>>,
     <<[date |-> Today, available |-> TRUE, custom_hours_start |-> 540, custom_hours_end |-> 720]>>,
     <<[date |-> Today, available |-> FALSE, custom_hours_start |-> None, custom_hours_end |-> None]>>}

EvalRuleSets ==
    {<<>>}
    \cup {<<Rule(TRUE, 0, 15, 0, 0, ov)>> : ov \in EvalOverrideSets}
    \cup {<<Rule(TRUE, 15, 15, 2, 0, <<>>)>>, <<Rule(TRUE, 0, 0, 1, 2, <<>>)>>,
          <<Rule(TRUE, 0, 0, 0, 2, <<>>)>>, <<Rule(FALSE, 0, 15, 1, 0, <<>>)>>}

MondayOff ==
    [has |-> TRUE,
     days |-> [d \in 0..6 |->
                 IF d = 0 THEN [enabled |-> FALSE, start |-> 0, end |-> 1439]
                          ELSE [enabled |-> TRUE, start |-> 540, end |-> 1020]]]

EvalSettings == {NoSettings, DefaultWorkingHours, MondayOff}

BusyEvent ==
    [event_title |-> 1, user |-> EvalMember, is_blocking_availability |-> TRUE, event_type |-> "Meeting",
     sync_status |-> "Synced",
     start_datetime |-> Combine(Today, 600), end_datetime |-> Combine(Today, 630)]

EvalCalendars == {<<>>, <<BusyEvent>>}

EvalDates == {Today, Today + 1}
EvalTimes == {570, 600, 610, 615, 780, 1425}
EvalDurations == {30}

EvalInit ==
    /\ \E f \in [1..Len(EvalSlots) -> EvalStatuses \cup {""}] :
          /\ Cardinality({i \in 1..Len(EvalSlots) : f[i] # ""}) <= MaxEvalBookings
          /\ bookings = EvalBookings(f)
    /\ deptAlgorithm = "Round Robin"
    /\ deptMembers = <<MemberRow("m1", TRUE), MemberRow("m2", TRUE)>>
    /\ \E rs \in EvalRuleSets : rules = [m \in Members |-> IF m = EvalMember THEN rs ELSE <<>>]
    /\ \E us \in EvalSettings : userSettings = [m \in Members |-> IF m = EvalMember THEN us ELSE NoSettings]
    /\ calendarEvents \in EvalCalendars
    /\ now = Combine(Today, NowTime)
    /\ clock = 0
    /\ tokenCtr = Len(bookings)
    /\ lastOp = NoOp
    /\ lastEval = NoEval
    /\ rrLog = NoLog
    /\ reqs = <<>>
    /\ budget = [clock |-> 0, tokens |-> 0]

\* a variant in which the check stamps the member's assignment tracking
EvaluateAndTrack ==
    \E scheduled_date \in EvalDates, scheduled_start_time \in EvalTimes,
       duration_minutes \in EvalDurations, exclude_booking \in {None} \cup (1..Len(bookings)) :
        /\ lastEval.calls < MaxEvalCalls
        /\ \/ lastEval.calls = 0
           \/ /\ lastEval.scheduled_date = scheduled_date
              /\ lastEval.scheduled_start_time = scheduled_start_time
              /\ lastEval.duration_minutes = duration_minutes
              /\ lastEval.exclude_booking = exclude_booking
        /\ lastEval' = [calls |-> lastEval.calls + 1,
                        member |-> EvalMember, scheduled_date |-> scheduled_date,
                        scheduled_start_time |-> scheduled_start_time,
                        duration_minutes |-> duration_minutes,
                        exclude_booking |-> exclude_booking,
                        result |-> check_member_availability(bookings, EvalMember, scheduled_date,
                                       scheduled_start_time, duration_minutes, exclude_booking)]
        /\ deptMembers' = update_member_assignment_tracking(deptMembers, EvalMember, lastEval.calls + 1)
        /\ UNCHANGED <<bookings, deptAlgorithm, rules, userSettings, calendarEvents,
                       now, clock, tokenCtr, lastOp, rrLog, reqs, budget>>

\* one call of check_member_availability (validation.py:17-100); a run makes
\* a call and may repeat it with the same arguments
Evaluate ==
    \E scheduled_date \in EvalDates, scheduled_start_time \in EvalTimes,
       duration_minutes \in EvalDurations, exclude_booking \in {None} \cup (1..Len(bookings)) :
        /\ lastEval.calls < MaxEvalCalls
        /\ \/ lastEval.calls = 0
           \/ /\ lastEval.scheduled_date = scheduled_date
              /\ lastEval.scheduled_start_time = scheduled_start_time
              /\ lastEval.duration_minutes = duration_minutes
              /\ lastEval.exclude_booking = exclude_booking
        /\ lastEval' = [calls |-> lastEval.calls + 1,
                        member |-> EvalMember, scheduled_date |-> scheduled_date,
                        scheduled_start_time |-> scheduled_start_time,
                        duration_minutes |-> duration_minutes,
                        exclude_booking |-> exclude_booking,
                        result |-> check_member_availability(bookings, EvalMember, scheduled_date,
                                       scheduled_start_time, duration_minutes, exclude_booking)]
        /\ UNCHANGED <<bookings, deptAlgorithm, deptMembers, rules, userSettings, calendarEvents,
                       now, clock, tokenCtr, lastOp, rrLog, reqs, budget>>

EvalNext == Evaluate

EvalSpec == EvalInit /\ [][EvalNext]_vars


----------------------------------------------------------------------------
(* assign_to_member as a function of the stored data: the bookings and the
   tracking fields of the members and the requested window are drawn at the
   start, every step is one call of assign_to_member for that window or one
   create_customer_booking request. *)

MaxSelectBookings == 2   \* existing bookings of the department's members
MaxSelectCalls == 2      \* successful assignments in a run

SelectPlaces ==
    <<[member |-> "m1", start_datetime |-> Combine(Today, 600), end_datetime |-> Combine(Today, 660)],
      [member |-> "m2", start_datetime |-> Combine(Today, 600), end_datetime |-> Combine(Today, 660)],
      [member |-> "m1", start_datetime |-> Combine(Today + 1, 600), end_datetime |-> Combine(Today + 1, 660)],
      [member |-> "m2", start_datetime |-> Combine(Today + 1, 600), end_datetime |-> Combine(Today + 1, 660)]>>
SelectStatuses == {"Confirmed", "Rescheduled", "Cancelled"}

SelectBooking(place, status, k) ==
    [meeting_type |-> "consult",
     start_datetime |-> SelectPlaces[place].start_datetime,
     end_datetime |-> SelectPlaces[place].end_datetime,
     booking_status |-> status,
     assigned_users |-> <<AssignedUser(SelectPlaces[place].member)>>,
     cancel_token |-> CancelToken(k),
     reschedule_token |-> RescheduleToken(k),
     cancellation_reason |-> IF status = "Cancelled" THEN "Customer Cancelled" ELSE "",
     cancelled_at |-> IF status = "Cancelled" THEN Combine(Today, NowTime) ELSE None]

SelectBookings(f) ==
    LET present == SelectSeq(IdSeq(Len(SelectPlaces)), LAMBDA i : f[i] # "")
    IN  [k \in 1..Len(present) |-> SelectBooking(present[k], f[present[k]], k)]

\* last_assigned_datetime of m1 and m2: earlier readings of the clock, or unset
SelectTracking == {<<None, None>>, <<None, 1>>, <<1, 2>>, <<2, 1>>}
SelectActive == {<<TRUE, TRUE>>, <<TRUE, FALSE>>, <<FALSE, FALSE>>}

TrackedRow(m, active, last) ==
    [member |-> m, is_active |-> active, last_assigned_datetime |-> last,
     total_assignments |-> IF last = None THEN 0 ELSE 1]

SelectDates == {Today, Today + 1}
SelectTimes == {600}
SelectDurations == {60}

SelectInit ==
    /\ \E f \in [1..Len(SelectPlaces) -> SelectStatuses \cup {""}] :
          /\ Cardinality({i \in 1..Len(SelectPlaces) : f[i] # ""}) <= MaxSelectBookings
          /\ bookings = SelectBookings(f)
    /\ deptAlgorithm \in Algorithms
    /\ \E tr \in SelectTracking, ac \in SelectActive :
          deptMembers = <<TrackedRow("m1", ac[1], tr[1]), TrackedRow("m2", ac[2], tr[2])>>
    /\ rules = [m \in Members |-> <<>>]
    /\ userSettings = [m \in Members |-> NoSettings]
    /\ calendarEvents = <<>>
    /\ now = Combine(Today, NowTime)
    /\ clock = 2
    /\ tokenCtr = Len(bookings)
    /\ lastOp = NoOp
    /\ lastEval = NoEval
    /\ rrLog = [NoLog EXCEPT !.fair = FALSE]
    /\ \E scheduled_date \in SelectDates, scheduled_start_time \in SelectTimes,
          duration_minutes \in SelectDurations :
          reqs = <<[scheduled_date |-> scheduled_date,
                    scheduled_start_time |-> scheduled_start_time,
                    duration_minutes |-> duration_minutes]>>
    /\ budget = [clock |-> 2 + MaxSelectCalls, tokens |-> Len(bookings) + 1]

\* assignment.py:19-90: one call of assign_to_member; a call that throws
\* changes nothing
SelectAssign ==
    LET scheduled_date == reqs[1].scheduled_date
        scheduled_start_time == reqs[1].scheduled_start_time
        duration_minutes == reqs[1].duration_minutes
    IN
        /\ clock < budget.clock
        /\ LET assignment == assign_to_member(bookings, deptMembers, deptAlgorithm, scheduled_date,
                                              scheduled_start_time, duration_minutes)
           IN  /\ IF ~assignment.ok
                  THEN /\ lastOp' = Outcome("assign_to_member", FALSE, assignment.error, 0, "", "")
                       /\ UNCHANGED <<deptMembers, clock, rrLog>>
                  ELSE /\ deptMembers' = update_member_assignment_tracking(
                                             deptMembers, assignment.assigned_to, clock + 1)
                       /\ clock' = clock + 1
                       /\ rrLog' = LogAssignment(rrLog, assignment.assigned_to,
                                      AvailableMembers(bookings, deptMembers, scheduled_date,
                                                       scheduled_start_time, duration_minutes))
                       /\ lastOp' = Outcome("assign_to_member", TRUE, "", 0,
                                            assignment.assigned_to, assignment.assignment_method)
        /\ UNCHANGED <<bookings, deptAlgorithm, rules, userSettings, calendarEvents, now, tokenCtr,
                       lastEval, reqs, budget>>

\* a run serves at most one create_customer_booking request, before its
\* calls of assign_to_member
SelectNext ==
    \/ SelectAssign
    \/ (lastOp = NoOp /\ create_customer_booking)

SelectSpec == SelectInit /\ [][SelectNext]_vars

----------------------------------------------------------------------------
(* Interleaved update_member_assignment_tracking (assignment.py:201-220): each
   call loads the department document with its member rows, changes the row
   of its member in the loaded copy and saves the copy, which writes every
   row of the department back. *)

TrackCalls == {1, 2}

IdleCall == [pc |-> "idle", member |-> "", rows |-> <<>>, before |-> 0, t |-> None]

TrackInit ==
    /\ bookings = <<>>
    /\ deptAlgorithm \in {"Round Robin", "Least Busy"}
    /\ \E tr \in SelectTracking, active \in BOOLEAN :
          deptMembers = <<TrackedRow("m1", TRUE, tr[1]), TrackedRow("m2", TRUE, tr[2]),
                          TrackedRow("m3", active, None)>>
    /\ rules = [m \in Members |-> <<>>]
    /\ userSettings = [m \in Members |-> NoSettings]
    /\ calendarEvents = <<>>
    /\ now = Combine(Today, NowTime)
    /\ clock = 2
    /\ tokenCtr = 0
    /\ lastOp = NoOp
    /\ lastEval = NoEval
    /\ rrLog = [NoLog EXCEPT !.fair = FALSE]
    /\ reqs = [p \in TrackCalls |-> IdleCall]
    /\ budget = [clock |-> 2 + Cardinality(TrackCalls), tokens |-> 0]

\* assignment.py:209-216: get_doc, then the loop that changes the member's row
\* of the loaded document
TrackLoad(p) ==
    /\ reqs[p].pc = "idle"
    /\ \E member \in Members :
          reqs' = [reqs EXCEPT ![p] =
                      [pc |-> "loaded", member |-> member,
                       rows |-> update_member_assignment_tracking(deptMembers, member, clock + 1),
                       before |-> RowOf(deptMembers, member).total_assignments,
                       t |-> clock + 1]]
    /\ clock' = clock + 1
    /\ UNCHANGED <<bookings, deptAlgorithm, deptMembers, rules, userSettings, calendarEvents,
                   now, tokenCtr, lastOp, lastEval, rrLog, budget>>

\* assignment.py:219: dept.save writes the loaded document with all its rows
TrackSave(p) ==
    /\ reqs[p].pc = "loaded"
    /\ deptMembers' = reqs[p].rows
    /\ reqs' = [reqs EXCEPT ![p].pc = "saved"]
    /\ UNCHANGED <<bookings, deptAlgorithm, rules, userSettings, calendarEvents, now, clock,
                   tokenCtr, lastOp, lastEval, rrLog, budget>>

TrackNext == \E p \in TrackCalls : TrackLoad(p) \/ TrackSave(p)

TrackSpec == TrackInit /\ [][TrackNext]_vars

----------------------------------------------------------------------------
(* utils/timezone.py.  A zone is "UTC" or "Europe/Copenhagen": standard time
   UTC+1, summer time UTC+2; the clocks go from 02:00 to 03:00 on SpringDay
   and from 03:00 back to 02:00 on FallDay.  A naive datetime is a number of
   minutes as elsewhere; an aware one is [local, utcoffset]. *)

Zones == {"UTC", "Europe/Copenhagen"}
SpringDay == 90
FallDay == 300
StandardOffset == 60
SummerOffset == 120

\* wall-clock times of a zone that never occur (skipped by the spring change)
NonExistent(dt, tz) ==
    /\ tz = "Europe/Copenhagen"
    /\ dt >= Combine(SpringDay, 120) /\ dt < Combine(SpringDay, 180)

\* wall-clock times of a zone that occur twice (repeated by the autumn change)
Ambiguous(dt, tz) ==
    /\ tz = "Europe/Copenhagen"
    /\ dt >= Combine(FallDay, 120) /\ dt < Combine(FallDay, 180)

\* pytz tzinfo.localize(dt, is_dst): is_dst is "True", "False" or "None"; only
\* "None" raises for a time that does not exist or occurs twice, "True" and
\* "False" pick the summer or the standard offset for it
localize(dt, tz, is_dst) ==
    IF tz = "UTC" THEN [error |-> "", local |-> dt, utcoffset |-> 0]
    ELSE IF NonExistent(dt, tz) /\ is_dst = "None"
         THEN [error |-> "NonExistentTimeError", local |-> dt, utcoffset |-> 0]
    ELSE IF Ambiguous(dt, tz) /\ is_dst = "None"
         THEN [error |-> "AmbiguousTimeError", local |-> dt, utcoffset |-> 0]
    ELSE IF NonExistent(dt, tz) \/ Ambiguous(dt, tz)
         THEN [error |-> "", local |-> dt,
               utcoffset |-> IF is_dst = "True" THEN SummerOffset ELSE StandardOffset]
    ELSE [error |-> "", local |-> dt,
          utcoffset |-> IF dt >= Combine(SpringDay, 180) /\ dt < Combine(FallDay, 120)
                        THEN SummerOffset ELSE StandardOffset]

\* datetime.astimezone(tz) of an aware datetime
astimezone(aware, tz) ==
    LET utc == aware.local - aware.utcoffset
        offset == IF tz = "UTC" THEN 0
                  ELSE IF utc >= Combine(SpringDay, 60) /\ utc < Combine(FallDay, 60)
                       THEN SummerOffset ELSE StandardOffset
    IN  [local |-> utc + offset, utcoffset |-> offset]

\* timezone.py:51-76 for a naive dt: localize with the default is_dst = False,
\* then astimezone; an error of localize would propagate
convert_to_timezone(dt, from_tz, to_tz) ==
    LET localized == localize(dt, from_tz, "False")
    IN  IF localized.error # ""
        THEN [ok |-> FALSE, error |-> localized.error, value |-> [local |-> 0, utcoffset |-> 0]]
        ELSE [ok |-> TRUE, error |-> "",
              value |-> astimezone([local |-> localized.local, utcoffset |-> localized.utcoffset], to_tz)]

convert_to_utc(dt, source_tz) == convert_to_timezone(dt, source_tz, "UTC")

convert_from_utc(dt, target_tz) == convert_to_timezone(dt, "UTC", target_tz)

\* timezone.py:250-271: TRUE when localize raises
is_dst_transition(dt, tz) ==
    localize(dt, tz, "False").error \in {"AmbiguousTimeError", "NonExistentTimeError"}

TzDays == {Today, SpringDay, FallDay}
TzTimes == {60, 90, 120, 135, 150, 180, 210, 600}
TzDateTimes == {Combine(d, t) : d \in TzDays, t \in TzTimes}

TzInit ==
    /\ bookings = <<>>
    /\ deptAlgorithm = "Round Robin"
    /\ deptMembers = <<MemberRow("m1", TRUE), MemberRow("m2", TRUE)>>
    /\ rules = [m \in Members |-> <<>>]
    /\ userSettings = [m \in Members |-> NoSettings]
    /\ calendarEvents = <<>>
    /\ now = Combine(Today, NowTime)
    /\ clock = 0
    /\ tokenCtr = 0
    /\ lastOp = NoOp
    /\ lastEval = NoEval
    /\ rrLog = NoLog
    /\ reqs = <<>>
    /\ budget = [clock |-> 0, tokens |-> 0]

TzUnchanged ==
    UNCHANGED <<bookings, deptAlgorithm, deptMembers, rules, userSettings, calendarEvents,
                now, clock, tokenCtr, lastEval, rrLog, reqs, budget>>

ConvertToUtc ==
    \E dt \in TzDateTimes, tz \in Zones :
        LET result == convert_to_utc(dt, tz)
        IN  /\ lastOp' = [op |-> "convert_to_utc", ok |-> result.ok, error |-> result.error,
                          dt |-> dt, tz |-> tz, value |-> result.value, flag |-> FALSE]
            /\ TzUnchanged

ConvertFromUtc ==
    \E dt \in TzDateTimes, tz \in Zones :
        LET result == convert_from_utc(dt, tz)
        IN  /\ lastOp' = [op |-> "convert_from_utc", ok |-> result.ok, error |-> result.error,
                          dt |-> dt, tz |-> tz, value |-> result.value, flag |-> FALSE]
            /\ TzUnchanged

IsDstTransition ==
    \E dt \in TzDateTimes, tz \in Zones :
        /\ lastOp' = [op |-> "is_dst_transition", ok |-> TRUE, error |-> "", dt |-> dt, tz |-> tz,
                      value |-> [local |-> dt, utcoffset |-> 0],
                      flag |-> is_dst_transition(dt, tz)]
        /\ TzUnchanged

TzNext == ConvertToUtc \/ ConvertFromUtc \/ IsDstTransition

TzSpec == TzInit /\ [][TzNext]_vars

----------------------------------------------------------------------------
(* api/availability.py: the public availability view of a department.  The
   department's timezone is UTC and the caller is a guest. *)

\* validation.py:462-494
validate_minimum_notice(member, scheduled_datetime) ==
    LET availability_rules == FirstRule(rules[member])
    IN  IF availability_rules = <<>> \/ availability_rules[1].min_notice_hours = 0
        THEN TRUE
        ELSE ~(scheduled_datetime < now + availability_rules[1].min_notice_hours * 60)

\* validation.py:497-528
validate_advance_booking_window(member, scheduled_date) ==
    LET availability_rules == FirstRule(rules[member])
    IN  IF availability_rules = <<>> \/ availability_rules[1].max_days_advance = 0
        THEN TRUE
        ELSE ~(scheduled_date > DateOf(now) + availability_rules[1].max_days_advance)

\* availability.py:282-339: working day enabled and no override that makes the
\* member unavailable on the date
has_member_availability_on_date(member, date, duration_minutes) ==
    IF ~userSettings[member].has THEN TRUE
    ELSE IF ~userSettings[member].days[Weekday(date)].enabled THEN FALSE
    ELSE ~\E k \in 1..Len(OverridesFor(rules[member], date)) :
              ~OverridesFor(rules[member], date)[k].available

\* availability.py:201-213: the loop that builds time_slots; current_time is a
\* time of day, so adding the interval wraps at midnight.  The loop ends when
\* current_time passes 18:00 and never ends when current_time comes back to a
\* value it had before.
RECURSIVE TimeSlots(_, _, _)
TimeSlots(current_time, slot_interval, seen) ==
    IF ~(current_time <= 1080) THEN [returns |-> TRUE, time_slots |-> <<>>]
    ELSE IF current_time \in seen THEN [returns |-> FALSE, time_slots |-> <<>>]
    ELSE LET rest == TimeSlots((current_time + slot_interval) % MinutesPerDay, slot_interval,
                               seen \cup {current_time})
         IN  [returns |-> rest.returns, time_slots |-> <<current_time>> \o rest.time_slots]

\* availability.py:219-235: the active members available for one slot
SlotMembers(bks, member_ids, scheduled_date, slot_time, duration) ==
    SelectSeq(member_ids, LAMBDA m :
        /\ check_member_availability(bks, m.member, scheduled_date, slot_time, duration, None).available
        /\ validate_minimum_notice(m.member, Combine(scheduled_date, slot_time)))

\* availability.py:238-249
SlotData(bks, member_ids, scheduled_date, slot_time, duration) ==
    LET start_datetime == Combine(scheduled_date, slot_time)
        end_datetime == start_datetime + duration
    IN  [start_time |-> slot_time,
         end_time |-> TimeOf(end_datetime),
         start_datetime_utc |-> convert_to_utc(start_datetime, "UTC").value.local,
         available_member_count |-> Len(SlotMembers(bks, member_ids, scheduled_date, slot_time, duration))]

\* availability.py:131-279; returns = FALSE when the call does not return
get_department_available_slots(bks, rows, scheduled_date, duration) ==
    LET member_ids == ActiveMembers(rows)
        grid == TimeSlots(480, duration, {})
        open == SelectSeq(grid.time_slots, LAMBDA slot_time :
                    SlotMembers(bks, member_ids, scheduled_date, slot_time, duration) # <<>>)
    IN  IF member_ids = <<>> THEN [returns |-> TRUE, slots |-> <<>>]
        ELSE IF ~grid.returns THEN [returns |-> FALSE, slots |-> <<>>]
        ELSE [returns |-> TRUE,
              slots |-> [k \in 1..Len(open) |->
                            SlotData(bks, member_ids, scheduled_date, open[k], duration)]]

\* availability.py:19-128 over the dates of the requested month
get_department_available_dates(rows, month, duration) ==
    LET member_ids == ActiveMembers(rows)
    IN  IF member_ids = <<>> THEN <<>>
        ELSE SelectSeq(month, LAMBDA current_date :
                 /\ ~(current_date < DateOf(now))
                 /\ \E k \in 1..Len(member_ids) :
                       /\ validate_advance_booking_window(member_ids[k].member, current_date)
                       /\ has_member_availability_on_date(member_ids[k].member, current_date, duration))

\* the dates of the requested month: yesterday (a Sunday) to the day after
\* tomorrow
Month == <<Today - 1, Today, Today + 1, Today + 2>>
EnumDurations == {60, 90, 480}

EnumBookingSets ==
    {SelectBookings([i \in 1..Len(SelectPlaces) |-> IF i \in on THEN "Confirmed" ELSE ""]) :
        on \in SUBSET {1, 2}}

EveningHours ==
    [has |-> TRUE, days |-> [d \in 0..6 |-> [enabled |-> TRUE, start |-> 1200, end |-> 1320]]]

EnumSettings == {NoSettings, DefaultWorkingHours, MondayOff, EveningHours}

EnumRuleSets ==
    {<<>>,
     <<Rule(TRUE, 0, 0, 1, 0, <<>>)>>,
     <<[Rule(TRUE, 0, 0, 0, 0, <<>>) EXCEPT !.min_notice_hours = 24, !.max_days_advance = 1]>>,
     <<Rule(TRUE, 0, 0, 0, 0,
            <<[date |-> Today + 1, available |-> FALSE, custom_hours_start |-> None,
               custom_hours_end |-> None]>>)>>}

EnumInit ==
    /\ bookings \in EnumBookingSets
    /\ deptAlgorithm = "Round Robin"
    /\ \E ac \in SelectActive : deptMembers = <<MemberRow("m1", ac[1]), MemberRow("m2", ac[2])>>
    /\ \E rs \in EnumRuleSets : rules = [m \in Members |-> IF m = "m1" THEN rs ELSE <<>>]
    /\ \E us \in EnumSettings : userSettings = [m \in Members |-> IF m = "m1" THEN us ELSE NoSettings]
    /\ calendarEvents = <<>>
    /\ now = Combine(Today, NowTime)
    /\ clock = 0
    /\ tokenCtr = Len(bookings)
    /\ lastOp = NoOp
    /\ lastEval = NoEval
    /\ rrLog = NoLog
    /\ reqs = <<>>
    /\ budget = [clock |-> 0, tokens |-> 0]

EnumUnchanged ==
    UNCHANGED <<bookings, deptAlgorithm, deptMembers, rules, userSettings, calendarEvents,
                now, clock, tokenCtr, lastEval, rrLog, reqs, budget>>

GetSlots ==
    \E scheduled_date \in {Month[k] : k \in 1..Len(Month)}, duration \in EnumDurations :
        LET result == get_department_available_slots(bookings, deptMembers, scheduled_date, duration)
        IN  /\ lastOp' = [op |-> "get_department_available_slots", ok |-> result.returns,
                          error |-> IF result.returns THEN "" ELSE "does not return",
                          date |-> scheduled_date, duration |-> duration,
                          slots |-> result.slots, available_dates |-> <<>>]
            /\ EnumUnchanged

GetDates ==
    \E duration \in EnumDurations :
        /\ lastOp' = [op |-> "get_department_available_dates", ok |-> TRUE, error |-> "",
                      date |-> Month[1], duration |-> duration, slots |-> <<>>,
                      available_dates |-> get_department_available_dates(deptMembers, Month, duration)]
        /\ EnumUnchanged

EnumNext == GetSlots \/ GetDates

EnumSpec == EnumInit /\ [][EnumNext]_vars

----------------------------------------------------------------------------
(* The customer's requests by token (public.py:417-471 and 528-733) on
   bookings that exist already, and a new request for a freed window. *)

CancelStatuses == {"Confirmed", "Pending", "Completed"}

\* bookings of m1 and of m2 for today 10:00-11:00
CancelBookingSets ==
    {SelectBookings(f) : f \in {g \in [1..Len(SelectPlaces) -> CancelStatuses \cup {""}] :
                                   g[3] = "" /\ g[4] = ""}}

CancelRuleSets == {<<>>, <<Rule(TRUE, 15, 15, 1, 0, <<>>)>>}

CancelInit ==
    /\ bookings \in CancelBookingSets
    /\ deptAlgorithm = "Round Robin"
    /\ deptMembers = <<MemberRow("m1", TRUE), MemberRow("m2", TRUE)>>
    /\ \E rs \in CancelRuleSets : rules = [m \in Members |-> IF m = "m1" THEN rs ELSE <<>>]
    /\ userSettings = [m \in Members |-> NoSettings]
    /\ calendarEvents = <<>>
    /\ now = Combine(Today, NowTime)
    /\ clock = 0
    /\ tokenCtr = Len(bookings)
    /\ lastOp = NoOp
    /\ lastEval = NoEval
    /\ rrLog = [NoLog EXCEPT !.fair = FALSE]
    /\ reqs = <<>>
    /\ budget = [clock |-> 1, tokens |-> Len(bookings) + 1]

CancelNext ==
    \/ cancel_booking
    \/ create_customer_booking
    \/ reschedule_booking

CancelSpec == CancelInit /\ [][CancelNext]_vars

----------------------------------------------------------------------------
(* The staff's requests (booking.py:285-505) next to the customer's booking
   and cancellation, on bookings that exist already, in a department whose
   members have no buffer times. *)

\* a booking of m1 for today 10:00-11:00, with or without one of m2
StaffBookingSets ==
    {SelectBookings(f) : f \in {g \in [1..Len(SelectPlaces) -> {"Confirmed", "Completed", ""}] :
                                   g[1] # "" /\ g[2] # "Completed" /\ g[3] = "" /\ g[4] = ""}}

StaffInit ==
    /\ bookings \in StaffBookingSets
    /\ deptAlgorithm = "Round Robin"
    /\ deptMembers = <<MemberRow("m1", TRUE), MemberRow("m2", TRUE), MemberRow("m3", FALSE)>>
    /\ rules = [m \in Members |-> <<>>]
    /\ userSettings = [m \in Members |-> NoSettings]
    /\ calendarEvents = <<>>
    /\ now = Combine(Today, NowTime)
    /\ clock = 0
    /\ tokenCtr = Len(bookings)
    /\ lastOp = NoOp
    /\ lastEval = NoEval
    /\ rrLog = [NoLog EXCEPT !.fair = FALSE]
    /\ reqs = <<>>
    /\ budget = [clock |-> 1, tokens |-> 2]

StaffNext ==
    \/ create_customer_booking
    \/ cancel_booking
    \/ reassign_booking
    \/ reschedule_booking_internal

StaffSpec == StaffInit /\ [][StaffNext]_vars

----------------------------------------------------------------------------
(* Properties of the booking lifecycle (specification Spec) *)

NonTerminal(b) == b.booking_status \notin TerminalStatuses

BufferBefore(member) == IF FirstRule(rules[member]) = <<>> THEN 0
                        ELSE FirstRule(rules[member])[1].buffer_time_before

BufferAfter(member) == IF FirstRule(rules[member]) = <<>> THEN 0
                       ELSE FirstRule(rules[member])[1].buffer_time_after

\* the interval a booking reserves for a member: its window widened by the
\* member's buffers
ReservedStart(b, member) == b.start_datetime - BufferBefore(member)
ReservedEnd(b, member) == b.end_datetime + BufferAfter(member)

\* C1: for every member, no two distinct bookings assigned to that member,
\* both with a status other than Cancelled or Completed, have windows that
\* overlap once widened by the member's buffer_before / buffer_after.
C1_NoOverlappingBookings ==
    \A member \in Members : \A i, j \in 1..Len(bookings) :
        (/\ i < j
         /\ AssignedTo(bookings[i], member) /\ AssignedTo(bookings[j], member)
         /\ NonTerminal(bookings[i]) /\ NonTerminal(bookings[j]))
        => ~(/\ ReservedStart(bookings[i], member) < ReservedEnd(bookings[j], member)
             /\ ReservedStart(bookings[j], member) < ReservedEnd(bookings[i], member))

\* the availability of booking i's host for booking i's own window
SelfCheck(i) ==
    check_member_availability(bookings, PrimaryUser(bookings[i]),
        DateOf(bookings[i].start_datetime), TimeOf(bookings[i].start_datetime),
        Duration(bookings[i]), None)

\* C4: a booking whose status is neither Cancelled nor Completed still
\* reserves its slot: asking whether its host is free for the booking's own
\* window (a window that ends on the day it starts) reports a booking
\* conflict with that booking.  This covers a booking moved by the public
\* reschedule_booking, whose status is Rescheduled.
C4_NonTerminalReservesSlot ==
    \A i \in 1..Len(bookings) :
        (/\ NonTerminal(bookings[i])
         /\ DateOf(bookings[i].end_datetime) = DateOf(bookings[i].start_datetime))
        => \E k \in 1..Len(SelfCheck(i).conflicts) :
               /\ SelfCheck(i).conflicts[k].type = "booking_conflict"
               /\ SelfCheck(i).conflicts[k].ref = i

----------------------------------------------------------------------------
(* Properties of interleaved creation (specification ConcSpec) *)

\* both requests asked for the same slot, were evaluated before either
\* booking was stored, and each found exactly one member available
SameSlotRace ==
    /\ reqs[1].pc # "idle" /\ reqs[2].pc # "idle"
    /\ reqs[1].scheduled_date = reqs[2].scheduled_date
    /\ reqs[1].scheduled_start_time = reqs[2].scheduled_start_time
    /\ reqs[1].seen = 0 /\ reqs[2].seen = 0
    /\ reqs[1].available = 1 /\ reqs[2].available = 1

\* C2: when two create_customer_booking requests for the same department,
\* date and start time interleave and exactly one member is available, at
\* most one booking is stored; the other request ends with an error.
C2_AtMostOnePersisted ==
    (reqs # <<>> /\ SameSlotRace) => ~(reqs[1].pc = "done" /\ reqs[2].pc = "done")

----------------------------------------------------------------------------
(* Properties of check_member_availability (specification EvalSpec) *)

Called == lastEval.calls > 0

EvalStart == Combine(lastEval.scheduled_date, lastEval.scheduled_start_time)
EvalEnd == EvalStart + lastEval.duration_minutes

HasType(type) ==
    \E k \in 1..Len(lastEval.result.conflicts) : lastEval.result.conflicts[k].type = type

HasConflict(type, ref) ==
    \E k \in 1..Len(lastEval.result.conflicts) :
        /\ lastEval.result.conflicts[k].type = type
        /\ lastEval.result.conflicts[k].ref = ref

\* C3: for a candidate window [s, e) the result holds a booking_conflict for
\* an existing booking A of the member, with a status other than Cancelled
\* or Completed, exactly when A.start < e and A.end > s; a window that only
\* touches A (A.end = s or A.start = e) is no booking conflict.
C3_ConflictIffOverlap ==
    Called =>
        \A i \in 1..Len(bookings) :
            (/\ AssignedTo(bookings[i], lastEval.member)
             /\ NonTerminal(bookings[i])
             /\ i # lastEval.exclude_booking)
            => (HasConflict("booking_conflict", i)
                    <=> (/\ bookings[i].start_datetime < EvalEnd
                         /\ bookings[i].end_datetime > EvalStart))

\* C5: when the member's weekday is disabled in the working hours and a date
\* override for the requested date is available with custom hours [cs, ce],
\* the override replaces the working-hours check: no working_hours conflict
\* is reported, and a date_override conflict is reported exactly when the
\* window (one that ends on the day it starts) is not inside [cs, ce].
C5_OverrideReplacesWorkingHours ==
    LET ovs == OverridesFor(rules[lastEval.member], lastEval.scheduled_date)
        us == userSettings[lastEval.member]
        s == lastEval.scheduled_start_time
        e == lastEval.scheduled_start_time + lastEval.duration_minutes
    IN  (/\ Called
         /\ e < MinutesPerDay
         /\ us.has /\ ~us.days[Weekday(lastEval.scheduled_date)].enabled
         /\ ovs # <<>> /\ ovs[1].available
         /\ ovs[1].custom_hours_start # None /\ ovs[1].custom_hours_end # None)
        => /\ ~HasType("working_hours")
           /\ HasType("date_override")
                  <=> ~(s >= ovs[1].custom_hours_start /\ e <= ovs[1].custom_hours_end)

\* C6: with a rule that asks for buffer_time_after minutes after a meeting, a
\* request that starts less than that many minutes after an existing
\* Confirmed or Pending booking of the member ends is reported as a
\* buffer_time conflict (ends 10:00, 15 minutes, request at 10:10); a request
\* that starts once the buffer of every such booking has passed reports none.
C6_BufferAfterExisting ==
    LET member == lastEval.member
        Near(i) == /\ AssignedTo(bookings[i], member)
                   /\ bookings[i].booking_status \in ActiveStatuses
                   /\ i # lastEval.exclude_booking
    IN  (Called /\ BufferAfter(member) > 0 /\ BufferBefore(member) = 0)
        => /\ (\E i \in 1..Len(bookings) :
                  /\ Near(i)
                  /\ bookings[i].end_datetime < EvalStart
                  /\ EvalStart < bookings[i].end_datetime + BufferAfter(member))
              => HasType("buffer_time")
           /\ (\A i \in 1..Len(bookings) :
                  Near(i) => bookings[i].end_datetime + BufferAfter(member) <= EvalStart)
              => ~HasType("buffer_time")

\* the member's bookings that start on the dates first..last and have a
\* status other than Cancelled or Completed
NonTerminalCount(member, first, last) ==
    Cardinality({i \in 1..Len(bookings) :
        /\ AssignedTo(bookings[i], member)
        /\ NonTerminal(bookings[i])
        /\ DateOf(bookings[i].start_datetime) >= first
        /\ DateOf(bookings[i].start_datetime) <= last})

\* C7: with a rule whose max_bookings_per_day is N > 0 the result holds an
\* availability_rule conflict exactly when the member has at least N
\* bookings with a status other than Cancelled or Completed that start on
\* the requested date; the same holds for max_bookings_per_week over the
\* Monday-to-Sunday week of the date; a cap of 0 never rejects.
C7_QuotaCountsNonTerminal ==
    LET member == lastEval.member
        d == lastEval.scheduled_date
        monday == d - Weekday(d)
        rule == FirstRule(rules[member])[1]
    IN  (Called /\ FirstRule(rules[member]) # <<>>)
        => (HasType("availability_rule")
               <=> \/ /\ rule.max_bookings_per_day > 0
                      /\ NonTerminalCount(member, d, d) >= rule.max_bookings_per_day
                   \/ /\ rule.max_bookings_per_week > 0
                      /\ NonTerminalCount(member, monday, monday + 6) >= rule.max_bookings_per_week)

ConflictCount(type) ==
    Cardinality({k \in 1..Len(lastEval.result.conflicts) : lastEval.result.conflicts[k].type = type})

\* the place of a conflict type in the order the checks run
CheckOrder(type) ==
    CASE type = "working_hours" -> 1
      [] type = "date_override" -> 2
      [] type = "booking_conflict" -> 3
      [] type = "calendar_event" -> 4
      [] type = "buffer_time" -> 5
      [] type = "availability_rule" -> 6

\* C8: check_member_availability runs all six checks whatever the earlier
\* ones found: the result holds the conflicts of every check, ordered working
\* hours, date override, booking conflicts, calendar events, buffer time,
\* availability rule; available is true exactly when there is no conflict;
\* reason is the message of the first conflict, or null when there is none.
C8_AllChecksInOrder ==
    LET member == lastEval.member
        d == lastEval.scheduled_date
        t == lastEval.scheduled_start_time
        end_time == TimeOf(EvalEnd)
        ex == lastEval.exclude_booking
        r == lastEval.result
    IN  Called =>
        /\ ConflictCount("working_hours")
              = (IF check_working_hours(member, d, t, end_time).available THEN 0 ELSE 1)
        /\ ConflictCount("date_override")
              = (IF check_date_overrides(member, d, t, end_time).available THEN 0 ELSE 1)
        /\ ConflictCount("booking_conflict")
              = Len(check_booking_conflicts(bookings, member, d, t, end_time, ex))
        /\ ConflictCount("calendar_event")
              = Len(check_calendar_event_conflicts(member, EvalStart, EvalEnd))
        /\ ConflictCount("buffer_time")
              = Len(check_buffer_time_conflicts(bookings, member, EvalStart, EvalEnd, ex))
        /\ ConflictCount("availability_rule")
              = (IF check_availability_rules(bookings, member, d).available THEN 0 ELSE 1)
        /\ \A j, k \in 1..Len(r.conflicts) :
               j < k => CheckOrder(r.conflicts[j].type) <= CheckOrder(r.conflicts[k].type)
        /\ r.available <=> (r.conflicts = <<>>)
        /\ r.reason = (IF r.conflicts = <<>> THEN NoReason ELSE r.conflicts[1].message)

\* a call in which the first, a middle and the last check all failed
C8_Witness ==
    /\ Called
    /\ HasType("working_hours") /\ HasType("booking_conflict") /\ HasType("availability_rule")
    /\ ~lastEval.result.available
    /\ lastEval.result.reason = lastEval.result.conflicts[1].message

----------------------------------------------------------------------------
(* Properties of Round Robin assignment (specification AssignSpec) *)

\* r1 was assigned no later than r2; a member never assigned is the oldest
NotAssignedAfter(r1, r2) ==
    \/ r1.last_assigned_datetime = None
    \/ /\ r2.last_assigned_datetime # None
       /\ r1.last_assigned_datetime <= r2.last_assigned_datetime

\* C10: under Round Robin each automatic assignment picks, among the members
\* available for the slot, one whose last_assigned_datetime is the oldest, a
\* member never assigned counting as oldest.  While every assignment so far
\* found all n active members available, the last n picks are n distinct
\* members and the members' total_assignments differ by at most 1.
C10_RoundRobinOldestFirst ==
    [][clock' # clock =>
          /\ rrLog'.last \in rrLog'.avail
          /\ \A k \in 1..Len(deptMembers) :
                 deptMembers[k].member \in rrLog'.avail
                 => NotAssignedAfter(RowOf(deptMembers, rrLog'.last), deptMembers[k])
          /\ rrLog'.fair =>
                /\ \A i, j \in 1..Len(rrLog'.picks) : i < j => rrLog'.picks[i] # rrLog'.picks[j]
                /\ \A i, j \in 1..Len(deptMembers') :
                       (deptMembers'[i].is_active /\ deptMembers'[j].is_active)
                       => deptMembers'[i].total_assignments - deptMembers'[j].total_assignments <= 1
      ]_vars

\* three assignments in a row that each found all three members available
C10_Witness ==
    /\ deptAlgorithm = "Round Robin"
    /\ rrLog.fair /\ Len(rrLog.picks) = 3
    /\ clock = 3
    /\ \A k \in 1..Len(deptMembers) : deptMembers[k].total_assignments = 1

----------------------------------------------------------------------------
(* Properties of assign_to_member (specification SelectSpec) *)

\* a step that is one call of assign_to_member
AssignCall == lastOp'.op = "assign_to_member" /\ (clock' # clock \/ ~lastOp'.ok)

\* C11: under Least Busy the selected member has the least number of bookings
\* with a status other than Cancelled or Completed in the 7 days starting at
\* the requested date among the available members, and among members with an
\* equal count the one assigned longest ago (never assigned first) is taken.
C11_LeastBusyMinimum ==
    [][(AssignCall /\ lastOp'.ok /\ deptAlgorithm = "Least Busy") =>
          \A m \in rrLog'.avail :
              LET d == reqs[1].scheduled_date
                  chosen == NonTerminalCount(lastOp'.member, d, d + 6)
                  other == NonTerminalCount(m, d, d + 6)
              IN  \/ chosen < other
                  \/ /\ chosen = other
                     /\ NotAssignedAfter(RowOf(deptMembers, lastOp'.member), RowOf(deptMembers, m))
      ]_vars

NoAlgorithmError == "Department does not have an assignment algorithm configured"
NoMemberErrors == {"No members available in department at the requested time",
                   "No active members in department"}

\* C12: assign_to_member fails with a no-members-available error when no
\* active member of the department is available for the requested window, and
\* with the no-algorithm-configured error when the department has no
\* algorithm (this one is raised first); a failing call changes no member's
\* last_assigned_datetime or total_assignments, and a create_customer_booking
\* request that ends with one of these errors stores no booking.
C12_AssignmentErrors ==
    [][/\ AssignCall =>
            /\ deptAlgorithm = "" => (~lastOp'.ok /\ lastOp'.error = NoAlgorithmError)
            /\ (/\ deptAlgorithm # ""
                /\ AvailableMembers(bookings, deptMembers, reqs[1].scheduled_date,
                                    reqs[1].scheduled_start_time, reqs[1].duration_minutes) = <<>>)
               => (~lastOp'.ok /\ lastOp'.error \in NoMemberErrors)
            /\ ~lastOp'.ok => UNCHANGED <<deptMembers, bookings>>
       /\ (/\ lastOp'.op = "create_customer_booking"
           /\ lastOp'.error \in NoMemberErrors \cup {NoAlgorithmError})
          => UNCHANGED <<deptMembers, bookings>>
      ]_vars

\* a call that failed because every active member is booked for the window
C12_Witness ==
    /\ lastOp.op = "assign_to_member" /\ ~lastOp.ok
    /\ lastOp.error = "No members available in department at the requested time"
    /\ Len(bookings) = 2 /\ clock = 2

KnownAlgorithms == {"Round Robin", "Least Busy"}

\* the members available for the request of SelectAssign
RequestAvailable ==
    AvailableMembers(bookings, deptMembers, reqs[1].scheduled_date,
                     reqs[1].scheduled_start_time, reqs[1].duration_minutes)

\* the call succeeded with the Round Robin choice and the "(default)" method
DefaultRoundRobin ==
    /\ lastOp'.ok
    /\ lastOp'.method = "Round Robin (default)"
    /\ \A m \in NamesOf(RequestAvailable) :
           NotAssignedAfter(RowOf(deptMembers, lastOp'.member), RowOf(deptMembers, m))

\* C13: when the department's assignment_algorithm is set to a value other
\* than Round Robin and Least Busy and a member is available, assign_to_member
\* does not fail: it selects by the Round Robin rule and returns the method
\* 'Round Robin (default)'; when the algorithm is unset the call fails with
\* the no-algorithm-configured error.
C13_UnknownAlgorithmDefault ==
    [][AssignCall =>
          /\ (deptAlgorithm \notin KnownAlgorithms \cup {""} /\ RequestAvailable # <<>>)
             => DefaultRoundRobin
          /\ deptAlgorithm = "" => (~lastOp'.ok /\ lastOp'.error = NoAlgorithmError)
      ]_vars

\* C13 as stated: an unknown or unset algorithm never fails and falls back to
\* Round Robin with the method 'Round Robin (default)'.
C13_UnknownOrUnsetDefault ==
    [][(AssignCall /\ deptAlgorithm \notin KnownAlgorithms /\ RequestAvailable # <<>>)
          => DefaultRoundRobin
      ]_vars

\* a call under an unrecognised algorithm that took the default, with two
\* members to choose from
C13_Witness ==
    /\ lastOp.op = "assign_to_member" /\ lastOp.ok
    /\ lastOp.method = "Round Robin (default)"
    /\ deptAlgorithm = "Weighted"
    /\ Cardinality(rrLog.avail) = 2

\* C14: a successful assign_to_member sets the chosen member's
\* last_assigned_datetime to the current time and raises the member's
\* total_assignments by exactly 1; every other member's row
\* (last_assigned_datetime, total_assignments, is_active) and the chosen
\* member's is_active stay as they were.
C14_TrackingOfChosenOnly ==
    [][(AssignCall /\ lastOp'.ok) =>
          /\ Len(deptMembers') = Len(deptMembers)
          /\ \A k \in 1..Len(deptMembers) :
                 IF deptMembers[k].member = lastOp'.member
                 THEN deptMembers'[k] =
                          [deptMembers[k] EXCEPT
                               !.last_assigned_datetime = clock',
                               !.total_assignments = deptMembers[k].total_assignments + 1]
                 ELSE deptMembers'[k] = deptMembers[k]
      ]_vars

\* a second assignment of the same member, next to a member assigned before
\* whose row still holds its initial tracking
C14_Witness ==
    /\ lastOp.op = "assign_to_member" /\ lastOp.ok
    /\ RowOf(deptMembers, lastOp.member).total_assignments = 2
    /\ RowOf(deptMembers, lastOp.member).last_assigned_datetime = clock
    /\ \E k \in 1..Len(deptMembers) :
           /\ deptMembers[k].member # lastOp.member
           /\ deptMembers[k].total_assignments = 1
           /\ deptMembers[k].last_assigned_datetime \in {1, 2}

----------------------------------------------------------------------------
(* Properties of interleaved tracking updates (specification TrackSpec) *)

\* the call of p has saved the row it wrote for its member
Tracked(p) ==
    /\ RowOf(deptMembers, reqs[p].member).total_assignments = reqs[p].before + 1
    /\ RowOf(deptMembers, reqs[p].member).last_assigned_datetime = reqs[p].t

\* C15: when two update_member_assignment_tracking calls for two different
\* members of one department interleave, after both have saved each of the
\* two members has total_assignments raised by exactly one and
\* last_assigned_datetime set by its call; no update is lost.
C15_NoLostTrackingUpdate ==
    (/\ DOMAIN reqs = TrackCalls
     /\ \A p \in TrackCalls : reqs[p].pc = "saved"
     /\ reqs[1].member # reqs[2].member)
    => (Tracked(1) /\ Tracked(2))

----------------------------------------------------------------------------
(* Properties of the availability view (specification EnumSpec) *)

\* 08:00 plus multiples of the duration, up to 18:00
GridTimes(duration) == {t \in 480..1080 : (t - 480) % duration = 0}

\* the active members that are available for the slot and pass the minimum
\* notice
OpenFor(scheduled_date, slot_time, duration) ==
    {m \in NamesOf(ActiveMembers(deptMembers)) :
        /\ check_member_availability(bookings, m, scheduled_date, slot_time, duration, None).available
        /\ validate_minimum_notice(m, Combine(scheduled_date, slot_time))}

\* C16: get_department_available_slots returns exactly the grid start times
\* (08:00 plus multiples of the meeting-type duration, up to 18:00) for which
\* at least one active member has check_member_availability available and
\* passes validate_minimum_notice, each once, and available_member_count is
\* the number of such members.
C16_SlotsAreOpenGridTimes ==
    lastOp.op = "get_department_available_slots" =>
        /\ lastOp.ok
        /\ {<<lastOp.slots[k].start_time, lastOp.slots[k].available_member_count>> :
               k \in 1..Len(lastOp.slots)}
           = {<<t, Cardinality(OpenFor(lastOp.date, t, lastOp.duration))>> :
                 t \in {u \in GridTimes(lastOp.duration) :
                           OpenFor(lastOp.date, u, lastOp.duration) # {}}}
        /\ \A j, k \in 1..Len(lastOp.slots) :
               lastOp.slots[j].start_time = lastOp.slots[k].start_time => j = k

\* C17: a date of the requested month is in the result of
\* get_department_available_dates if and only if
\* get_department_available_slots for the same department, meeting type and
\* date, on the same state, returns a non-empty slot list.
C17_DateListedIffSlots ==
    lastOp.op = "get_department_available_dates" =>
        \A k \in 1..Len(Month) :
            LET slots == get_department_available_slots(bookings, deptMembers, Month[k],
                                                        lastOp.duration)
            IN  slots.returns =>
                    ((\E j \in 1..Len(lastOp.available_dates) : lastOp.available_dates[j] = Month[k])
                     <=> slots.slots # <<>>)

----------------------------------------------------------------------------
(* Properties of the timezone conversions (specification TzSpec) *)

\* C18: convert_to_utc of a naive local date-time that does not exist because
\* of the spring change fails with a NonexistentLocalTime error, and of one
\* that occurs twice fails with an AmbiguousLocalTime error; no instant is
\* returned for either, and is_dst_transition is true for both kinds of time.
C18_DstTimesRejected ==
    /\ (lastOp.op = "convert_to_utc" /\ NonExistent(lastOp.dt, lastOp.tz))
       => (~lastOp.ok /\ lastOp.error = "NonexistentLocalTime")
    /\ (lastOp.op = "convert_to_utc" /\ Ambiguous(lastOp.dt, lastOp.tz))
       => (~lastOp.ok /\ lastOp.error = "AmbiguousLocalTime")
    /\ (lastOp.op = "is_dst_transition"
        /\ (NonExistent(lastOp.dt, lastOp.tz) \/ Ambiguous(lastOp.dt, lastOp.tz)))
       => lastOp.flag

----------------------------------------------------------------------------
(* Properties of cancel_booking (specification CancelSpec) *)

\* C19: cancel_booking with the cancel token of a booking whose status is
\* Cancelled or Completed fails with 'This booking has already been
\* cancelled' or '... completed' and leaves the bookings unchanged; a second
\* cancel_booking with the token of a booking just cancelled fails this way.
C19_TerminalCancelRejected ==
    [][(/\ lastOp'.op = "cancel_booking"
        /\ lastOp'.booking # 0
        /\ bookings[lastOp'.booking].booking_status \in {"Cancelled", "Completed"})
       => /\ ~lastOp'.ok
          /\ lastOp'.error = (IF bookings[lastOp'.booking].booking_status = "Cancelled"
                              THEN "This booking has already been cancelled"
                              ELSE "This booking has already been completed")
          /\ bookings' = bookings
      ]_vars

\* a cancel_booking call rejected for a booking cancelled earlier in the run
C19_Witness ==
    /\ lastOp.op = "cancel_booking" /\ ~lastOp.ok
    /\ lastOp.booking # 0
    /\ lastOp.error = "This booking has already been cancelled"
    /\ bookings[lastOp.booking].booking_status = "Cancelled"

\* the requests used to probe check_member_availability
ProbeTimes == {570, 600, 630, 660}
ProbeDurations == {30, 60}

\* the bookings with booking n taken away from its members
Unassigned(bks, n) == [bks EXCEPT ![n].assigned_users = <<>>]

\* C20: a successful cancel_booking leaves the booking with status Cancelled,
\* cancellation_reason 'Customer Cancelled' and cancelled_at set; from then on
\* the booking adds no booking_conflict, no buffer_time conflict and nothing
\* to a quota in check_member_availability for its member: every evaluation
\* gives the result it gives without the booking, so the freed window is
\* open for the same member again.
C20_CancelledFreesWindow ==
    /\ (lastOp.op = "cancel_booking" /\ lastOp.ok)
       => /\ bookings[lastOp.booking].booking_status = "Cancelled"
          /\ bookings[lastOp.booking].cancellation_reason = "Customer Cancelled"
          /\ bookings[lastOp.booking].cancelled_at = now
    /\ \A n \in 1..Len(bookings) :
           bookings[n].booking_status = "Cancelled" =>
               \A d \in Dates, t \in ProbeTimes, dur \in ProbeDurations :
                   check_member_availability(bookings, PrimaryUser(bookings[n]), d, t, dur, None)
                   = check_member_availability(Unassigned(bookings, n), PrimaryUser(bookings[n]),
                                               d, t, dur, None)

\* a booking cancelled in the run and a later booking of the same member for
\* the same window
C20_Witness ==
    \E i, j \in 1..Len(bookings) :
        /\ i < j
        /\ bookings[i].booking_status = "Cancelled"
        /\ bookings[i].cancellation_reason = "Customer Cancelled"
        /\ bookings[j].booking_status \in {"Confirmed", "Pending"}
        /\ PrimaryUser(bookings[j]) = PrimaryUser(bookings[i])
        /\ bookings[j].start_datetime = bookings[i].start_datetime
        /\ bookings[j].end_datetime = bookings[i].end_datetime

----------------------------------------------------------------------------
(* Properties of reschedule_booking (specification AssignSpec) *)

\* the step is a successful reschedule_booking call
Rescheduled == lastOp'.op = "reschedule_booking" /\ lastOp'.ok /\ tokenCtr' # tokenCtr

----------------------------------------------------------------------------
(* Properties of the requests by token (specification CancelSpec) *)

Tokens == 0..RescheduleToken(tokenCtr)

----------------------------------------------------------------------------
(* Further properties of check_member_availability (specification EvalSpec) *)

\* C23: for a member with a working-hours record, no working_hours conflict
\* is reported only if the requested weekday is enabled and the whole
\* interval from start to start + duration lies inside that day's
\* work_start..work_end, also when the end passes midnight; a member without
\* a working-hours record never gets a working_hours conflict.
C23_WorkingHoursContainRequest ==
    Called =>
        LET us == userSettings[lastEval.member]
            day_config == us.days[Weekday(lastEval.scheduled_date)]
        IN  IF us.has
            THEN ~HasType("working_hours") =>
                     /\ day_config.enabled
                     /\ Combine(lastEval.scheduled_date, day_config.start) <= EvalStart
                     /\ EvalEnd <= Combine(lastEval.scheduled_date, day_config.end)
            ELSE ~HasType("working_hours")

\* C24: evaluating a member with exclude_booking = b gives the result of the
\* same evaluation on a state from which b has been removed: b produces no
\* booking_conflict, no buffer_time conflict and is not counted toward the
\* daily or weekly quota.
C24_ExcludedBookingIsAbsent ==
    (Called /\ lastEval.exclude_booking # None) =>
        lastEval.result
            = check_member_availability(Unassigned(bookings, lastEval.exclude_booking),
                  lastEval.member, lastEval.scheduled_date, lastEval.scheduled_start_time,
                  lastEval.duration_minutes, None)

\* the member has rules, none of them flagged default
OnlyNonDefaultRules(member) ==
    /\ rules[member] # <<>>
    /\ \A i \in 1..Len(rules[member]) : ~rules[member][i].is_default

\* C25: the buffer and quota checks use the member's rule flagged default; a
\* member who has only non-default rules never gets a buffer_time or an
\* availability_rule conflict.
C25_OnlyDefaultRuleApplies ==
    (Called /\ OnlyNonDefaultRules(lastEval.member)) =>
        /\ ~HasType("buffer_time")
        /\ ~HasType("availability_rule")

----------------------------------------------------------------------------
(* Properties of the staff's requests (specification StaffSpec) *)

\* C26: reassign_booking changes the primary host only if the booking is
\* neither Cancelled nor Completed, the new member is an active member of
\* the department and check_member_availability for the booking's window,
\* excluding the booking itself, reports the member available; otherwise the
\* call fails, the assigned users stay as they were and no assignment
\* counter changes.
C26_ReassignOnlyToAvailableActiveMember ==
    [][lastOp'.op = "reassign_booking" =>
         LET booking == bookings[lastOp'.booking]
             new_assigned_to == lastOp'.member
         IN  IF lastOp'.ok
             THEN /\ booking.booking_status \notin TerminalStatuses
                  /\ IsActiveMember(deptMembers, new_assigned_to)
                  /\ check_member_availability(bookings, new_assigned_to,
                         DateOf(booking.start_datetime), TimeOf(booking.start_datetime),
                         Duration(booking), lastOp'.booking).available
                  /\ PrimaryUser(bookings'[lastOp'.booking]) = new_assigned_to
             ELSE /\ bookings' = bookings
                  /\ deptMembers' = deptMembers]_vars

\* a booking handed over to another member of the department
C26_Witness ==
    /\ lastOp.op = "reassign_booking"
    /\ lastOp.ok
    /\ lastOp.member = "m1"
    /\ PrimaryUser(bookings[lastOp.booking]) = "m1"
    /\ bookings[lastOp.booking].cancel_token = CancelToken(2)

----------------------------------------------------------------------------
(* Further properties of the slot listing (specification EnumSpec) *)

\* the durations MMMeetingType.validate_duration accepts
PermittedDurations == 1..480

\* C27: the generation of the slot grid in get_department_available_slots
\* terminates for every permitted meeting-type duration (1 to 480 minutes),
\* also when adding the duration to the current slot time passes midnight.
C27_SlotGridTerminates ==
    (lastOp.op = "get_department_available_slots" /\ lastOp.duration \in PermittedDurations)
        => lastOp.ok

\* the public meeting type the slots were listed for
ListedType == [name |-> "consult", duration |-> lastOp.duration, requires_approval |-> FALSE]

\* C28: every slot that get_department_available_slots offers can be booked
\* by create_customer_booking for the same date and time right afterwards:
\* no offered slot starts before the current time, misses the minimum notice
\* or lies beyond the maximum advance window that validate_timing checks.
C28_OfferedSlotsAreBookable ==
    (lastOp.op = "get_department_available_slots" /\ lastOp.ok) =>
        \A k \in 1..Len(lastOp.slots) :
            /\ ~(Combine(lastOp.date, lastOp.slots[k].start_time) < now)
            /\ CreateError(ListedType, lastOp.date, lastOp.slots[k].start_time) = ""

----------------------------------------------------------------------------
(* Further properties of the staff's requests (specification StaffSpec) *)

\* the booking blocks its host: Pending or Confirmed
Blocking(b) == b.booking_status \in {"Pending", "Confirmed"}

\* C29: under sequential execution of create_customer_booking,
\* cancel_booking, reassign_booking and reschedule_booking_internal, with
\* all buffer times zero, no member is the primary host of two bookings that
\* are both Pending or Confirmed and whose windows from start to end overlap,
\* bookings that end on the day after their start included.
C29_NoHostDoubleBooked ==
    \A i, j \in 1..Len(bookings) :
        (/\ i < j
         /\ Blocking(bookings[i]) /\ Blocking(bookings[j])
         /\ PrimaryUser(bookings[i]) # ""
         /\ PrimaryUser(bookings[i]) = PrimaryUser(bookings[j]))
        => \/ bookings[i].end_datetime <= bookings[j].start_datetime
           \/ bookings[j].end_datetime <= bookings[i].start_datetime

----------------------------------------------------------------------------
(* Properties of the stored assignment (specification SelectSpec) *)

\* the step stores a new booking
Persisted ==
    /\ lastOp'.op = "create_customer_booking"
    /\ lastOp'.ok
    /\ Len(bookings') = Len(bookings) + 1

\* C30: every booking that create_customer_booking persists has exactly one
\* assigned user, flagged primary host, and that user was, in the state right
\* before the call, an active member of the department for whom
\* check_member_availability at the requested window returned available.
C30_PersistedHostWasAvailable ==
    [][Persisted =>
         LET booking == bookings'[Len(bookings')]
             host == booking.assigned_users[1]
         IN  /\ Len(booking.assigned_users) = 1
             /\ host.is_primary_host
             /\ IsActiveMember(deptMembers, host.user)
             /\ check_member_availability(bookings, host.user, DateOf(booking.start_datetime),
                    TimeOf(booking.start_datetime), Duration(booking), None).available]_vars

\* a booking stored for the one member who was free: the other member holds
\* a Confirmed booking that overlaps the requested window
C30_Witness ==
    /\ lastOp.op = "create_customer_booking"
    /\ lastOp.ok
    /\ lastOp.booking = Len(bookings)
    /\ bookings[lastOp.booking].assigned_users = <<AssignedUser(lastOp.member)>>
    /\ \E i \in 1..(Len(bookings) - 1) :
          /\ bookings[i].booking_status = "Confirmed"
          /\ PrimaryUser(bookings[i]) # lastOp.member
          /\ bookings[i].start_datetime < bookings[lastOp.booking].end_datetime
          /\ bookings[lastOp.booking].start_datetime < bookings[i].end_datetime

====
